---- MODULE Spec2Model ----
(***************************************************************************)
(* Model of the interactive REPL of cli/tools/repl.rs: the driver loop     *)
(* run(), the bridge read_line_and_poll(), the line-reading unit with its  *)
(* EditorHelper, the ReplSession evaluation pipeline and the execution     *)
(* context reached through the inspector protocol.                         *)
(*                                                                         *)
(* The tokenizer/transpiler and the script engine are external: what a     *)
(* text parses to and what its evaluation does is chosen by the            *)
(* environment at the moment the code asks for it.                         *)
(***************************************************************************)
EXTENDS Integers, Sequences, FiniteSets, TLC

(* ------------------------------ bounds -------------------------------- *)
\* lines the user submits in one session
MaxLines == 2
\* lines the user submits in the session of the fair specification
MaxLiveLines == 1
\* completions (tab) the user asks for in one session
MaxCompletions == 1
\* length of the texts the wrap decision is explored on
MaxLen == 3
\* tokens and comments in a buffer given to validate
MaxTokens == 3
\* length of the lines complete is called on
MaxLineLen == 3
\* names in the answer of Runtime.getProperties
MaxNames == 2
\* names in the answer of Runtime.globalLexicalScopeNames
MaxScopeNames == 1
\* tokens and comments in a line given to highlight
MaxItems == 2

(* ------------------------------- data --------------------------------- *)
Undefined == "undefined"
Values == {"v1", "v2"}
Results == Values \cup {Undefined}

Chars == {" ", "{", ";", "a"}
Texts == UNION {[1..n -> Chars] : n \in 0..MaxLen}
\* the lines typed in a session
SessionLines == {<<"a">>, <<" ", "{", "a", "}", " ">>}

\* the file deno_history.txt when run() starts: absent or unreadable, or
\* with the entries an earlier session saved
NoFile == [exists |-> FALSE, entries |-> <<>>]
HistoryFiles == {NoFile, [exists |-> TRUE, entries |-> <<<<"a">>>>]}
\* the lines and the scripts typed in the sessions that explore the history
HistoryLines == SessionLines \cup {<<>>}
HistoryEffects ==
  {[k |-> "pure", v |-> "v1"], [k |-> "throw", v |-> "v2"],
   [k |-> "close", v |-> Undefined]}

\* context ids the inspector may announce in Runtime.executionContextCreated
ContextIds == {7}

\* what the script engine does with a piece of user text
Effects ==
  [k : {"pure", "assign_"}, v : Values]
    \cup {[k |-> "throw", v |-> "v2"], [k |-> "assign_error", v |-> "v1"],
          [k |-> "close_throw", v |-> "v2"]}
    \cup [k : {"read_", "read_error", "close"}, v : {Undefined}]
\* the scripts typed in the sessions that explore the line texts or the
\* scheduling rather than the scripts
LiveEffects == {[k |-> "pure", v |-> "v1"], [k |-> "throw", v |-> "v2"]}
\* what ast::parse / transpile answer for a text
ParseOutcomes == {"ok", "diagnostic", "fatal"}

(* ------------------------- string operations -------------------------- *)
IsWhitespace(c) == c = " "

RECURSIVE trim_start(_)
trim_start(s) ==
  IF s = <<>> THEN s
  ELSE IF IsWhitespace(Head(s)) THEN trim_start(Tail(s)) ELSE s

RECURSIVE trim_end(_)
trim_end(s) ==
  IF s = <<>> THEN s
  ELSE IF IsWhitespace(s[Len(s)]) THEN trim_end(SubSeq(s, 1, Len(s) - 1))
  ELSE s

starts_with(s, c) == s # <<>> /\ Head(s) = c
ends_with(s, c) == s # <<>> /\ s[Len(s)] = c

\* the mutant decides on the untrimmed line
ShouldWrapNoTrim(l) == starts_with(l, "{") /\ ~ends_with(l, ";")
ShouldWrap(l) ==
  starts_with(trim_start(l), "{") /\ ~ends_with(trim_end(l), ";")

\* format!("({})", &line) or line.to_string()
WrappedLine(l) == IF ShouldWrap(l) THEN <<"(">> \o l \o <<")">> ELSE l

(* ------------------------------- state -------------------------------- *)
VARIABLES
  \* run() and read_line_and_poll(): position and locals; stdout is the
  \* line printed last
  pc, context_id, poll_worker, line_result, line, wrapped_line,
  evaluate_response, output, history, saved, stdout,
  \* the line-reading unit (spawn_blocking) and its EditorHelper
  lt, helper, helper_context_id,
  \* sync_channel(1) of requests and channel() of responses
  message_ch, response_ch,
  \* the inspector session: requests posted and not yet answered, answers
  \* not yet taken by the caller, notifications
  pending, reply, notifications,
  \* the execution context
  lastEvalResult, lastThrownError, globalThis, closed, console,
  \* history variables of the verification
  ev, prev, reqSent, respSent, budget, user, completions,
  \* the lines readline returned, in the order they were submitted
  submitted,
  \* a call of validate, complete or highlight that rustyline makes on the
  \* EditorHelper, explored on its own
  call,
  \* message ports: OpState.resource_table and the id it gives next, the
  \* messages in the receiver of every port, the ports not dropped, the
  \* recv future of every port, and what the last op returned
  resource_table, next_rid, rx, live, recv_op, ret,
  \* history variables of the message ports: pairs created, calls of
  \* post_message, and the data posted on and received by every port
  pairs, posts, posted, received

drvVars == <<pc, context_id, poll_worker, line_result, line, wrapped_line,
             evaluate_response, output, history, saved, stdout>>
ltVars == <<lt, helper, helper_context_id>>
chanVars == <<message_ch, response_ch>>
protoVars == <<pending, reply, notifications>>
ctxVars == <<lastEvalResult, lastThrownError, globalThis, closed, console>>
ghostVars == <<ev, prev, reqSent, respSent, budget, user, completions>>
portVars == <<resource_table, next_rid, rx, live, recv_op, ret, pairs, posts,
              posted, received>>
vars == <<drvVars, ltVars, chanVars, protoVars, ctxVars, ghostVars,
          submitted, call, portVars>>

BindingNames == {"_", "_error"}

(* ---------------------- protocol messages ----------------------------- *)
\* a request: who posts it, the method, what it asks for, its text or
\* value argument, the context id it names and (history) its number
\* (ctx is {} when the parameters name no context)
Request(from, method, what, text, value, ctx, id) ==
  [from |-> from, method |-> method, what |-> what, text |-> text,
   value |-> value, ctx |-> ctx, id |-> id]

\* a response: Err(..) of the transport, or a result with optional
\* exceptionDetails, result.value, result.objectId; listed and names are the
\* array of Runtime.getProperties ("result") and of
\* Runtime.globalLexicalScopeNames ("names")
Response(r, err, exception, value, str, objectId) ==
  [of |-> r.id, what |-> r.what, err |-> err, exception |-> exception,
   value |-> value, str |-> str, objectId |-> objectId, listed |-> FALSE,
   names |-> <<>>]

NoResponse ==
  [of |-> 0, what |-> "none", err |-> FALSE, exception |-> FALSE,
   value |-> Undefined, str |-> <<>>, objectId |-> FALSE, listed |-> FALSE,
   names |-> <<>>]

OkValue(r, v) == Response(r, FALSE, FALSE, v, <<>>, FALSE)
Thrown(r, v) == Response(r, FALSE, TRUE, v, <<>>, FALSE)
TransportError(r) == Response(r, TRUE, FALSE, Undefined, <<>>, FALSE)
\* the answer of the engine to a request for names: with the array or
\* without it
Listed(r, a) ==
  [OkValue(r, Undefined) EXCEPT !.listed = a.listed, !.names = a.names]
\* the engine of a session lists no name
EmptyLists ==
  [getProperties |-> {[listed |-> TRUE, names |-> <<>>]},
   globalLexicalScopeNames |-> {[listed |-> TRUE, names |-> <<>>]}]

\* Deno[Deno.internal].inspectArgs(['%o', object], ...): the rendering
Inspect(v) == <<"%o", v>>

NoEffect == [k |-> "none", v |-> Undefined]
NoEv ==
  [attempts |-> 0, sent |-> 0, first |-> <<>>, last |-> <<>>,
   firstFailed |-> "no", effect |-> NoEffect, booked |-> "none",
   inspected |-> FALSE, closing |-> FALSE, diag |-> FALSE,
   printed |-> FALSE, added |-> FALSE,
   before |-> [lastEvalResult |-> Undefined, lastThrownError |-> Undefined]]
NoHelper ==
  [kind |-> "none", stage |-> "none", id |-> 0, got |-> 0, panics |-> FALSE]
NoLine == [kind |-> "none", text |-> <<>>]
NoPrev == [kind |-> "none", value |-> Undefined]
NoCall == [fn |-> "none"]

\* two entangled pairs, and the ports of a pair
MaxPairs == 2
PortIds == 1..(2 * MaxPairs)
\* what an op returned
Ret(op, kind, error, data, rids) ==
  [op |-> op, kind |-> kind, error |-> error, data |-> data, rids |-> rids]
\* the resource table before any message port is created: resource 0 is
\* not a message port
NoPorts ==
  /\ resource_table = (0 :> [name |-> "stdin", port |-> 0])
  /\ next_rid = 1
  /\ rx = [p \in PortIds |-> <<>>]
  /\ live = {}
  /\ recv_op = [p \in PortIds |-> "none"]
  /\ ret = Ret("none", "Ok", "", 0, <<>>)
  /\ pairs = 0
  /\ posts = 0
  /\ posted = [p \in PortIds |-> <<>>]
  /\ received = [p \in PortIds |-> <<>>]

(* --------------------- the execution context -------------------------- *)
Absent == [tag |-> "absent", value |-> Undefined]
Tracking == [tag |-> "Tracking", value |-> Undefined]
UserOverridden(v) == [tag |-> "UserOverridden", value |-> v]

\* PRELUDE: defineProperty of `_` and `_error` with getter and setter
Prelude(g) == [n \in BindingNames |-> Tracking]

Internal(n, res, err) == IF n = "_" THEN res ELSE err

\* reading globalThis._ / globalThis._error: the getter of the prelude
\* while it is installed, the data property after an assignment
ReadGlobal(g, n, res, err) ==
  IF g[n].tag = "Tracking" THEN Internal(n, res, err) ELSE g[n].value

\* the mutant's setter prints the notice but leaves the accessor installed
AssignGlobalNoRedefine(g, n, v) ==
  IF g[n].tag = "Tracking" THEN g ELSE [g EXCEPT ![n] = UserOverridden(v)]
\* assigning to globalThis._ / globalThis._error: the setter of the prelude
\* redefines the property as a writable data property; later assignments
\* write that property
AssignGlobal(g, n, v) == [g EXCEPT ![n] = UserOverridden(v)]

\* the setter's console.log runs only while the accessor is installed
SetterNotice(g, n) == g[n].tag = "Tracking"

\* the state after construction, for a user who submits at most that many
\* lines, each one of the texts ls and doing one of the effects es, with
\* one of the history files
InitWith(lines, ls, es, files) ==
  /\ pc = "start"
  /\ context_id = 0
  /\ poll_worker = FALSE
  /\ line_result = NoLine
  /\ line = <<>>
  /\ wrapped_line = <<>>
  /\ evaluate_response = NoResponse
  /\ output = <<>>
  /\ history = <<>>
  /\ saved = 0
  /\ stdout = <<>>
  /\ lt = "none"
  /\ helper = NoHelper
  /\ helper_context_id = 0
  /\ message_ch = <<>>
  /\ response_ch = <<>>
  /\ pending = <<>>
  /\ reply = <<>>
  /\ notifications = <<>>
  /\ lastEvalResult = Undefined
  /\ lastThrownError = Undefined
  /\ globalThis = [n \in BindingNames |-> Absent]
  /\ closed = FALSE
  /\ console = [n \in BindingNames |-> 0]
  /\ ev = NoEv
  /\ prev = NoPrev
  /\ reqSent = 0
  /\ respSent = 0
  /\ budget = lines
  /\ \E f \in files :
       user = [lines |-> ls, scripts |-> es, names |-> EmptyLists,
               history_file |-> f]
  /\ completions = 0
  /\ submitted = <<>>
  /\ NoPorts
  /\ call = NoCall

Init == InitWith(MaxLines, SessionLines, Effects, {NoFile})

(* ------------------- the inspector and the engine --------------------- *)
\* LocalInspectorSession::post_message: the request is on its way
Post(r) == pending' = Append(pending, r)

\* the caller's await of post_message is over
Answer(resp) ==
  /\ pending' = Tail(pending)
  /\ reply' = Append(reply, resp)

\* the round trip fails: Err(..) instead of a result
Host_TransportError ==
  /\ pending # <<>>
  /\ Answer(TransportError(Head(pending)))
  /\ UNCHANGED <<drvVars, ltVars, chanVars, notifications, ctxVars, ghostVars>>
  /\ UNCHANGED <<submitted, call, portVars>>

\* Runtime.enable: one executionContextCreated notification per context
Host_Enable ==
  /\ pending # <<>> /\ Head(pending).what = "enable"
  /\ \E c \in ContextIds :
       notifications' =
         Append(notifications,
                [method |-> "Runtime.executionContextCreated", id |-> c])
  /\ Answer(OkValue(Head(pending), Undefined))
  /\ UNCHANGED <<drvVars, ltVars, chanVars, ctxVars, ghostVars>>
  /\ UNCHANGED <<submitted, call, portVars>>

\* Runtime.evaluate of PRELUDE
Host_Prelude ==
  /\ pending # <<>> /\ Head(pending).what = "PRELUDE"
  /\ globalThis' = Prelude(globalThis)
  /\ Answer(OkValue(Head(pending), Undefined))
  /\ UNCHANGED <<drvVars, ltVars, chanVars, notifications, lastEvalResult,
                 lastThrownError, closed, console, ghostVars>>
  /\ UNCHANGED <<submitted, call, portVars>>

\* Runtime.evaluate of PRELUDE reports an exception: the response carries
\* exceptionDetails and the bindings are not installed
Host_PreludeThrows ==
  /\ pending # <<>> /\ Head(pending).what = "PRELUDE"
  /\ Answer(Thrown(Head(pending), Undefined))
  /\ UNCHANGED <<drvVars, ltVars, chanVars, notifications, ctxVars, ghostVars>>
  /\ UNCHANGED <<submitted, call, portVars>>

\* the result of running a piece of user text that does e
EffectResponse(r, e) ==
  CASE e.k = "pure" -> OkValue(r, e.v)
    [] e.k \in {"throw", "close_throw"} -> Thrown(r, e.v)
    [] e.k = "read_" ->
         OkValue(r, ReadGlobal(globalThis, "_", lastEvalResult,
                               lastThrownError))
    [] e.k = "read_error" ->
         OkValue(r, ReadGlobal(globalThis, "_error", lastEvalResult,
                               lastThrownError))
    [] e.k = "assign_" -> OkValue(r, e.v)
    [] e.k = "assign_error" -> OkValue(r, e.v)
    [] e.k = "close" -> OkValue(r, Undefined)

EffectName(e) == IF e.k = "assign_" THEN "_" ELSE "_error"

\* Runtime.evaluate of transpiled user text, replMode
Host_EvaluateUser ==
  /\ pending # <<>> /\ Head(pending).what = "user"
  /\ \E e \in user.scripts :
       /\ Answer(EffectResponse(Head(pending), e))
       /\ IF e.k \in {"assign_", "assign_error"}
          THEN /\ globalThis' = AssignGlobal(globalThis, EffectName(e), e.v)
               /\ console' =
                    IF SetterNotice(globalThis, EffectName(e))
                    THEN [console EXCEPT ![EffectName(e)] = @ + 1]
                    ELSE console
          ELSE UNCHANGED <<globalThis, console>>
       /\ closed' = (closed \/ e.k \in {"close", "close_throw"})
       /\ ev' = [ev EXCEPT !.effect = e]
  /\ UNCHANGED <<drvVars, ltVars, chanVars, notifications, lastEvalResult,
                 lastThrownError, prev, reqSent, respSent, budget, user, completions>>
  /\ UNCHANGED <<submitted, call, portVars>>

\* Runtime.evaluate of "(globalThis.closed)"
Host_Closed ==
  /\ pending # <<>> /\ Head(pending).what = "closed"
  /\ Answer(OkValue(Head(pending), IF closed THEN "true" ELSE "false"))
  /\ UNCHANGED <<drvVars, ltVars, chanVars, notifications, ctxVars, ghostVars>>
  /\ UNCHANGED <<submitted, call, portVars>>

\* Runtime.callFunctionOn with one of the three function declarations
Host_CallFunctionOn ==
  /\ pending # <<>>
  /\ LET r == Head(pending) IN
       /\ r.what \in {"lastThrownError", "lastEvalResult", "inspectArgs"}
       /\ lastThrownError' =
            IF r.what = "lastThrownError" THEN r.value ELSE lastThrownError
       /\ lastEvalResult' =
            IF r.what = "lastEvalResult" THEN r.value ELSE lastEvalResult
       /\ Answer(IF r.what = "inspectArgs"
                 THEN Response(r, FALSE, FALSE, Undefined, Inspect(r.value),
                               FALSE)
                 ELSE OkValue(r, Undefined))
  /\ UNCHANGED <<drvVars, ltVars, chanVars, notifications, globalThis, closed,
                 console, ghostVars>>
  /\ UNCHANGED <<submitted, call, portVars>>

\* Runtime.evaluate with throwOnSideEffect and timeout 200: an exception,
\* a primitive, or an object with an objectId
Host_Probe ==
  /\ pending # <<>> /\ Head(pending).what = "probe"
  /\ \E o \in {"exception", "primitive", "object"} :
       Answer(Response(Head(pending), FALSE, o = "exception", Undefined,
                       <<>>, o = "object"))
  /\ UNCHANGED <<drvVars, ltVars, chanVars, notifications, ctxVars, ghostVars>>
  /\ UNCHANGED <<submitted, call, portVars>>

\* Runtime.getProperties and Runtime.globalLexicalScopeNames: the names the
\* engine lists
Host_Names ==
  /\ pending # <<>>
  /\ Head(pending).what \in {"getProperties", "globalLexicalScopeNames"}
  /\ \E a \in user.names[Head(pending).what] :
       Answer(Listed(Head(pending), a))
  /\ UNCHANGED <<drvVars, ltVars, chanVars, notifications, ctxVars, ghostVars>>
  /\ UNCHANGED <<submitted, call, portVars>>

Host ==
  \/ Host_TransportError
  \/ Host_Enable
  \/ Host_Prelude
  \/ Host_EvaluateUser
  \/ Host_Closed
  \/ Host_CallFunctionOn
  \/ Host_Probe
  \/ Host_Names

(* ------------------------ ReplSession::initialize --------------------- *)
SessionRequest(method, what, text, value, ctx) ==
  Request("session", method, what, text, value, ctx, 0)

\* evaluate_expression: Runtime.evaluate with contextId and replMode
EvaluateExpression(what, text, ctx) ==
  SessionRequest("Runtime.evaluate", what, text, Undefined, {ctx})

\* Runtime.callFunctionOn with executionContextId and one argument
CallFunctionOn(what, value) ==
  SessionRequest("Runtime.callFunctionOn", what, <<>>, value, {context_id})

\* the `?` after an await: the error ends run(), whose locals are dropped
Fail ==
  /\ pc' = "failed"
  /\ reply' = Tail(reply)
  /\ line_result' = NoLine
  /\ line' = <<>>
  /\ wrapped_line' = <<>>
  /\ evaluate_response' = NoResponse
  /\ output' = <<>>
  /\ ev' = NoEv
  /\ prev' = NoPrev
  /\ UNCHANGED <<context_id, poll_worker, history, saved, stdout, ltVars,
                 chanVars, pending, notifications, ctxVars, reqSent, respSent,
                 budget, user, completions>>

\* session.post_message("Runtime.enable", None)
Initialize_Enable ==
  /\ pc = "start"
  /\ Post(SessionRequest("Runtime.enable", "enable", <<>>, Undefined, {}))
  /\ pc' = "enable"
  /\ UNCHANGED <<context_id, poll_worker, line_result, line, wrapped_line,
                 evaluate_response, output, history, saved, stdout, ltVars,
                 chanVars, reply, notifications, ctxVars, ghostVars>>
  /\ UNCHANGED <<submitted, call, portVars>>

\* the loop over session.notifications(): the id of the last
\* Runtime.executionContextCreated, 0 when there is none
RECURSIVE NotifiedContext(_, _)
NotifiedContext(ns, id) ==
  IF ns = <<>> THEN id
  ELSE NotifiedContext(Tail(ns),
         IF Head(ns).method = "Runtime.executionContextCreated"
         THEN Head(ns).id ELSE id)

\* context_id is learned, then evaluate_expression(PRELUDE) is sent
Initialize_Context ==
  /\ pc = "enable" /\ reply # <<>>
  /\ IF Head(reply).err THEN Fail
     ELSE /\ context_id' = NotifiedContext(notifications, 0)
          /\ notifications' = <<>>
          /\ reply' = Tail(reply)
          /\ Post(EvaluateExpression("PRELUDE", <<>>, context_id'))
          /\ pc' = "prelude"
          /\ UNCHANGED <<poll_worker, line_result, line, wrapped_line,
                         evaluate_response, output, history, saved, stdout,
                         ltVars, chanVars, ctxVars, ghostVars>>
  /\ UNCHANGED <<submitted, call, portVars>>

Hint == "exit using ctrl+d or close()"

\* the mutant puts the entry in front of the older ones
add_history_entry_front(h, entry) ==
  IF entry = <<>> \/ (h # <<>> /\ h[Len(h)] = entry) THEN h
  ELSE <<entry>> \o h
\* the number of entries the editor of Config::builder() keeps
max_history_size == 100
\* ReplEditor::add_history_entry: the editor of Config::builder() keeps the
\* entry after the entries it holds, unless the entry is empty or equal to
\* the last one; the oldest entry makes room when the history is full
add_history_entry(h, entry) ==
  IF entry = <<>> \/ (h # <<>> /\ h[Len(h)] = entry) THEN h
  ELSE IF Len(h) >= max_history_size THEN Append(Tail(h), entry)
  ELSE Append(h, entry)

\* editor.load_history(&history_file_path).unwrap_or(()): the entries of the
\* file are added one by one; without a file the history stays empty
RECURSIVE load_history(_, _)
load_history(h, entries) ==
  IF entries = <<>> THEN h
  ELSE load_history(add_history_entry(h, Head(entries)), Tail(entries))

\* initialize returns; run() creates the channels, the helper and the
\* editor, which loads the history file, and prints the banner and the hint
Initialize_Done ==
  /\ pc = "prelude" /\ reply # <<>>
  /\ IF Head(reply).err THEN Fail
     ELSE /\ reply' = Tail(reply)
          /\ message_ch' = <<>>
          /\ response_ch' = <<>>
          /\ helper_context_id' = context_id
          /\ history' = IF user.history_file.exists
                        THEN load_history(<<>>, user.history_file.entries)
                        ELSE <<>>
          /\ stdout' = <<Hint>>
          /\ pc' = "loop"
          /\ UNCHANGED <<context_id, poll_worker, line_result, line,
                         wrapped_line, evaluate_response, output,
                         saved, lt, helper, pending, notifications, ctxVars,
                         ghostVars>>
  /\ UNCHANGED <<submitted, call, portVars>>

(* ------------------------- read_line_and_poll -------------------------- *)
\* tokio::task::spawn_blocking(move || editor.readline()); poll_worker = true
ReadLineAndPoll_Spawn ==
  /\ pc = "loop"
  /\ lt' = "reading"
  /\ line_result' = NoLine
  /\ poll_worker' = TRUE
  /\ pc' = "drain"
  /\ UNCHANGED <<context_id, line, wrapped_line,
                 evaluate_response, output, history, saved, stdout, helper,
                 helper_context_id, chanVars, protoVars, ctxVars, ghostVars>>
  /\ UNCHANGED <<submitted, call, portVars>>

\* the mutant's iterator never yields a message
try_iter_never(ch) == FALSE
\* message_rx.try_iter() yields a message while one is in the channel
try_iter_some(ch) == ch # <<>>

\* the next message of message_rx.try_iter() is posted to the session, or
\* the iterator is exhausted and the select is entered
Bridge_TryIter ==
  /\ pc = "drain"
  /\ IF try_iter_some(message_ch)
     THEN /\ Post(Head(message_ch))
          /\ message_ch' = Tail(message_ch)
          /\ pc' = "serve"
     ELSE /\ pc' = "select"
          /\ UNCHANGED <<pending, message_ch>>
  /\ UNCHANGED <<context_id, poll_worker, line_result, line, wrapped_line,
                 evaluate_response, output, history, saved, stdout, ltVars,
                 response_ch, reply, notifications, ctxVars, ghostVars>>
  /\ UNCHANGED <<submitted, call, portVars>>

\* the mutant sends the result twice
SendResultTwice(ch, r) == Append(Append(ch, r), r)
\* response_tx.send(result)
SendResult(ch, r) == Append(ch, r)

\* post_message_with_event_loop returned: its result, Ok or Err, is sent
Bridge_Respond ==
  /\ pc = "serve" /\ reply # <<>>
  /\ response_ch' = SendResult(response_ch, Head(reply))
  /\ reply' = Tail(reply)
  /\ respSent' = respSent + (Len(response_ch') - Len(response_ch))
  /\ pc' = "drain"
  /\ UNCHANGED <<context_id, poll_worker, line_result, line, wrapped_line,
                 evaluate_response, output, history, saved, stdout, ltVars,
                 message_ch, pending, notifications, ctxVars, ev, prev,
                 reqSent, budget, user, completions>>
  /\ UNCHANGED <<submitted, call, portVars>>

\* the mutant takes the handle as ready as soon as the unit was spawned
JoinReadyEarly(t) == t # "none"
\* the JoinHandle of the line-reading unit is ready when readline returned
\* or panicked
JoinReady(t) == t \in {"done", "panicked"}

\* select!: result = &mut line => return result.unwrap(); the local
\* poll_worker is dropped
Bridge_SelectLine ==
  /\ pc = "select" /\ JoinReady(lt)
  /\ pc' = IF lt = "panicked" THEN "panicked" ELSE "match"
  /\ lt' = IF lt \in {"done", "panicked"} THEN "none" ELSE lt
  /\ poll_worker' = FALSE
  /\ UNCHANGED <<context_id, line_result, line, wrapped_line,
                 evaluate_response, output, history, saved, stdout, helper,
                 helper_context_id, chanVars, protoVars, ctxVars, ghostVars>>
  /\ UNCHANGED <<submitted, call, portVars>>

\* the mutant races the scheduler step in every select
RaceEventLoopAlways(flag) == TRUE
\* the precondition `if poll_worker` of the branch
RaceEventLoop(flag) == flag

\* select!: _ = repl_session.run_event_loop(), if poll_worker
Bridge_SelectEventLoop ==
  /\ pc = "select" /\ RaceEventLoop(poll_worker)
  /\ poll_worker' = FALSE
  /\ pc' = "drain"
  /\ UNCHANGED <<context_id, line_result, line, wrapped_line,
                 evaluate_response, output, history, saved, stdout, ltVars,
                 chanVars, protoVars, ctxVars, ghostVars>>
  /\ UNCHANGED <<submitted, call, portVars>>

\* select!: _ = timeout => poll_worker = true
Bridge_SelectTimeout ==
  /\ pc = "select"
  /\ poll_worker' = TRUE
  /\ pc' = "drain"
  /\ UNCHANGED <<context_id, line_result, line, wrapped_line,
                 evaluate_response, output, history, saved, stdout, ltVars,
                 chanVars, protoVars, ctxVars, ghostVars>>
  /\ UNCHANGED <<submitted, call, portVars>>

(* ------------------- evaluate_line_and_get_output --------------------- *)
\* the Diagnostic of a parse failure, rendered by the Err arm
ParseErrorOutput == <<"parse error", ": ", "message", " at ", "line", ":", "col">>

\* evaluate_ts_expression(text): parse and transpile, then
\* evaluate_expression of the transpiled source; a Diagnostic makes
\* evaluate_line_and_get_output return the rendered parse error, after
\* which run() calls is_closing; any other failure ends run()
EvaluateTs(text, next) ==
  \E p \in ParseOutcomes :
    /\ ev' = [ev EXCEPT !.attempts = @ + 1,
                        !.sent = IF p = "ok" THEN @ + 1 ELSE @,
                        !.first = IF ev.attempts = 0 THEN text ELSE @,
                        !.last = text,
                        !.firstFailed =
                          IF ev.attempts = 0 /\ p = "diagnostic"
                          THEN "diagnostic" ELSE @,
                        !.diag = (p = "diagnostic")]
    /\ CASE p = "ok" ->
              /\ Post(EvaluateExpression("user", text, context_id))
              /\ pc' = next
              /\ UNCHANGED output
         [] p = "diagnostic" ->
              /\ output' = ParseErrorOutput
              /\ Post(EvaluateExpression("closed", <<>>, context_id))
              /\ pc' = "is_closing"
         [] p = "fatal" ->
              /\ pc' = "failed"
              /\ UNCHANGED <<output, pending>>

\* run(): Ok(line) => evaluate_line_and_get_output(&line); the wrap decision
\* of evaluate_line_with_object_wrapping
Run_Ok ==
  /\ pc = "match" /\ line_result.kind = "Ok"
  /\ line' = line_result.text
  /\ wrapped_line' = WrappedLine(line_result.text)
  /\ evaluate_response' = NoResponse
  /\ output' = <<>>
  /\ ev' = [NoEv EXCEPT !.before =
              [lastEvalResult |-> lastEvalResult,
               lastThrownError |-> lastThrownError]]
  /\ pc' = "wrapped"
  /\ UNCHANGED <<context_id, poll_worker, line_result, history, saved,
                 stdout, ltVars, chanVars, protoVars, ctxVars, prev, reqSent,
                 respSent, budget, user, completions>>
  /\ UNCHANGED <<submitted, call, portVars>>

\* self.evaluate_ts_expression(&wrapped_line)
Evaluate_First ==
  /\ pc = "wrapped"
  /\ EvaluateTs(wrapped_line, "evaluate1")
  /\ UNCHANGED <<context_id, poll_worker, line_result, line, wrapped_line,
                 evaluate_response, history, saved, stdout, ltVars, chanVars,
                 reply, notifications, ctxVars, prev, reqSent, respSent,
                 budget, user, completions>>
  /\ UNCHANGED <<submitted, call, portVars>>

\* the mutant retries whenever the first response carries an exception
RetryOnException(resp, wrapped, l) == resp.exception
\* evaluate_response.get("exceptionDetails").is_some() && wrapped_line != line
ShouldRetry(resp, wrapped, l) == resp.exception /\ wrapped # l

\* the first response arrives: retry with the unwrapped line, or keep it
Evaluate_FirstResponse ==
  /\ pc = "evaluate1" /\ reply # <<>>
  /\ IF Head(reply).err THEN Fail
     ELSE /\ evaluate_response' = Head(reply)
          /\ reply' = Tail(reply)
          /\ ev' = [ev EXCEPT !.firstFailed =
                      IF Head(reply).exception THEN "exception" ELSE "no"]
          /\ pc' = IF ShouldRetry(Head(reply), wrapped_line, line)
                   THEN "retry" ELSE "bookkeeping"
          /\ UNCHANGED <<context_id, poll_worker, line_result, line,
                         wrapped_line, output, history, saved, stdout,
                         ltVars, chanVars, pending, notifications, ctxVars,
                         prev, reqSent, respSent, budget, user, completions>>
  /\ UNCHANGED <<submitted, call, portVars>>

\* self.evaluate_ts_expression(&line)
Evaluate_Retry ==
  /\ pc = "retry"
  /\ EvaluateTs(line, "evaluate2")
  /\ UNCHANGED <<context_id, poll_worker, line_result, line, wrapped_line,
                 evaluate_response, history, saved, stdout, ltVars, chanVars,
                 reply, notifications, ctxVars, prev, reqSent, respSent,
                 budget, user, completions>>
  /\ UNCHANGED <<submitted, call, portVars>>

\* the response of the retry is the response of the line
Evaluate_RetryResponse ==
  /\ pc = "evaluate2" /\ reply # <<>>
  /\ IF Head(reply).err THEN Fail
     ELSE /\ evaluate_response' = Head(reply)
          /\ reply' = Tail(reply)
          /\ pc' = "bookkeeping"
          /\ UNCHANGED <<context_id, poll_worker, line_result, line,
                         wrapped_line, output, history, saved, stdout,
                         ltVars, chanVars, pending, notifications, ctxVars,
                         ghostVars>>
  /\ UNCHANGED <<submitted, call, portVars>>

\* the mutant stores every result as the last evaluation result
SetterAlwaysResult(resp) == "lastEvalResult"
\* if evaluate_exception_details.is_some() { set_last_thrown_error }
\* else { set_last_eval_result }
SetterFor(resp) ==
  IF resp.exception THEN "lastThrownError" ELSE "lastEvalResult"

\* set_last_thrown_error / set_last_eval_result is sent
Bookkeeping ==
  /\ pc = "bookkeeping"
  /\ Post(CallFunctionOn(SetterFor(evaluate_response),
                         evaluate_response.value))
  /\ ev' = [ev EXCEPT !.booked = SetterFor(evaluate_response)]
  /\ pc' = "booked"
  /\ UNCHANGED <<context_id, poll_worker, line_result, line, wrapped_line,
                 evaluate_response, output, history, saved, stdout, ltVars,
                 chanVars, reply, notifications, ctxVars, prev, reqSent,
                 respSent, budget, user, completions>>
  /\ UNCHANGED <<submitted, call, portVars>>

\* the setter call returned; get_eval_value is sent
GetEvalValue ==
  /\ pc = "booked" /\ reply # <<>>
  /\ IF Head(reply).err THEN Fail
     ELSE /\ reply' = Tail(reply)
          /\ pending' =
               Append(pending,
                      CallFunctionOn("inspectArgs", evaluate_response.value))
          /\ pc' = "inspect"
          /\ UNCHANGED <<context_id, poll_worker, line_result, line,
                         wrapped_line, evaluate_response, output, history,
                         saved, stdout, ltVars, chanVars, notifications,
                         ctxVars, ghostVars>>
  /\ UNCHANGED <<submitted, call, portVars>>

\* the mutant leaves the prefix out
FormatOutputNoPrefix(resp, value) == value
\* Some(_) => format!("Uncaught {}", value), None => value
FormatOutput(resp, value) ==
  IF resp.exception THEN <<"Uncaught ">> \o value ELSE value

\* evaluate_line_and_get_output returns the output; run() calls is_closing
Output_IsClosing ==
  /\ pc = "inspect" /\ reply # <<>>
  /\ IF Head(reply).err THEN Fail
     ELSE /\ output' = FormatOutput(evaluate_response, Head(reply).str)
          /\ reply' = Tail(reply)
          /\ pending' =
               Append(pending,
                      EvaluateExpression("closed", <<>>, context_id))
          /\ ev' = [ev EXCEPT !.inspected = TRUE]
          /\ pc' = "is_closing"
          /\ UNCHANGED <<context_id, poll_worker, line_result, line,
                         wrapped_line, evaluate_response, history, saved,
                         stdout, ltVars, chanVars, notifications, ctxVars,
                         prev, reqSent, respSent, budget, user, completions>>
  /\ UNCHANGED <<submitted, call, portVars>>

(* ------------------------------- run() -------------------------------- *)
\* the mutant prints the output before it looks at the closing flag
AfterEvaluationPrintFirst(closing) ==
  [brk |-> closing, print |-> TRUE, add |-> ~closing]
\* if is_closing { break; } println!(output); editor.add_history_entry(line)
AfterEvaluation(closing) ==
  [brk |-> closing, print |-> ~closing, add |-> ~closing]

\* what the line that was just processed left behind
Summary ==
  IF ev.diag THEN [kind |-> "diagnostic", value |-> Undefined]
  ELSE [kind |-> IF evaluate_response.exception THEN "exception" ELSE "value",
        value |-> evaluate_response.value]

\* is_closing returned: break, or print the output and add the line to the
\* history and loop; the locals of the iteration are dropped
Run_IsClosing ==
  /\ pc = "is_closing" /\ reply # <<>>
  /\ IF Head(reply).err THEN Fail
     ELSE LET todo == AfterEvaluation(Head(reply).value = "true") IN
          /\ reply' = Tail(reply)
          /\ stdout' = IF todo.print THEN output ELSE stdout
          /\ history' = IF todo.add THEN add_history_entry(history, line)
                      ELSE history
          /\ prev' = Summary
          /\ IF todo.brk
             THEN /\ pc' = "save"
                  /\ ev' = [ev EXCEPT !.closing = TRUE, !.printed = todo.print,
                                      !.added = todo.add]
                  /\ UNCHANGED <<line_result, line, wrapped_line,
                                 evaluate_response, output>>
             ELSE /\ pc' = "loop"
                  /\ ev' = NoEv
                  /\ line_result' = NoLine
                  /\ line' = <<>>
                  /\ wrapped_line' = <<>>
                  /\ evaluate_response' = NoResponse
                  /\ output' = <<>>
          /\ UNCHANGED <<context_id, poll_worker, saved, ltVars, chanVars,
                         pending, notifications, ctxVars, reqSent, respSent,
                         budget, user, completions>>
  /\ UNCHANGED <<submitted, call, portVars>>

ErrorOutput == "Error: "

\* the mutant ends the loop on every readline error
OnReadlineErrorBreak(kind) ==
  [print |-> IF kind = "Interrupted" THEN <<Hint>>
             ELSE IF kind = "Eof" THEN <<>> ELSE <<ErrorOutput, kind>>,
   brk |-> TRUE]
\* Err(Interrupted) => println!(hint); continue; Err(Eof) => break;
\* Err(err) => println!("Error: {:?}", err); break
OnReadlineError(kind) ==
  [print |-> IF kind = "Interrupted" THEN <<Hint>>
             ELSE IF kind = "Eof" THEN <<>> ELSE <<ErrorOutput, kind>>,
   brk |-> kind # "Interrupted"]

Run_ReadlineError ==
  /\ pc = "match" /\ line_result.kind \in {"Interrupted", "Eof", "Io"}
  /\ stdout' = IF OnReadlineError(line_result.kind).print = <<>> THEN stdout
               ELSE OnReadlineError(line_result.kind).print
  /\ pc' = IF OnReadlineError(line_result.kind).brk THEN "save" ELSE "loop"
  /\ UNCHANGED <<context_id, poll_worker, line_result, line, wrapped_line,
                 evaluate_response, output, history, saved, ltVars, chanVars,
                 protoVars, ctxVars, ghostVars>>
  /\ UNCHANGED <<submitted, call, portVars>>

\* editor.save_history()?: the history is written and run() returns Ok, or
\* create_dir_all or the write fails and run() returns the error
Run_SaveHistory ==
  /\ pc = "save"
  /\ \/ saved' = saved + 1 /\ pc' = "done"
     \/ saved' = saved /\ pc' = "failed"
  /\ UNCHANGED <<context_id, poll_worker, line_result, line, wrapped_line,
                 evaluate_response, output, history, stdout, ltVars, chanVars,
                 protoVars, ctxVars, ghostVars>>
  /\ UNCHANGED <<submitted, call, portVars>>

(* ------------- the line and the cursor of a completion ---------------- *)
\* the characters of the lines explored: a letter, the dot and a blank
CompletionChars == {"a", ".", " "}
CompletionLines == UNION {[1..n -> CompletionChars] : n \in 0..MaxLineLen}

\* char::is_ascii_whitespace, char::is_ascii_punctuation on those characters
AsciiWhitespace == {" "}
AsciiPunctuation == {"."}
is_word_boundary(c) ==
  IF c = "." THEN FALSE ELSE c \in AsciiWhitespace \/ c \in AsciiPunctuation

\* str::rfind: the offset of the last character that satisfies the
\* pattern, -1 for None
rfind_word_boundary(s) ==
  LET at == {i \in 0..(Len(s) - 1) : is_word_boundary(s[i + 1])} IN
  IF at = {} THEN -1 ELSE CHOOSE i \in at : \A j \in at : j <= i
rfind_dot(s) ==
  LET at == {i \in 0..(Len(s) - 1) : s[i + 1] = "."} IN
  IF at = {} THEN -1 ELSE CHOOSE i \in at : \A j \in at : j <= i

\* str::strip_prefix(is_word_boundary).unwrap_or(word), and strip_suffix
strip_prefix(word) ==
  IF word # <<>> /\ is_word_boundary(word[1]) THEN Tail(word) ELSE word
strip_suffix(word) ==
  IF word # <<>> /\ is_word_boundary(word[Len(word)])
  THEN SubSeq(word, 1, Len(word) - 1) ELSE word

\* line[..cursor_pos] and line[cursor_pos..] are searched from the right
get_expr_from_line_at_pos(l, cursor_pos) ==
  LET before == SubSeq(l, 1, cursor_pos)
      after == SubSeq(l, cursor_pos + 1, Len(l))
      start == IF rfind_word_boundary(before) = -1 THEN 0
               ELSE rfind_word_boundary(before)
      end == IF rfind_word_boundary(after) = -1 THEN cursor_pos
             ELSE cursor_pos + rfind_word_boundary(after)
  IN strip_suffix(strip_prefix(SubSeq(l, start + 1, end)))

(* ------------------ the candidates of a completion --------------------- *)
\* a name the protocol lists for a symbol-keyed property; "Symbol(" stands
\* for the seven characters
SymbolName == <<"Symbol(", "a", ")">>
Names == {<<"a">>, <<"a", "b">>, <<"b">>, SymbolName}
\* one answer of the protocol lists a name once
Injective(ns) == \A i, j \in 1..Len(ns) : ns[i] = ns[j] => i = j
NameLists ==
  {ns \in UNION {[1..n -> Names] : n \in 0..MaxNames} : Injective(ns)}
ScopeNameLists ==
  {ns \in UNION {[1..n -> Names] : n \in 0..MaxScopeNames} : Injective(ns)}

\* String::starts_with
str_starts_with(n, prefix) ==
  Len(prefix) <= Len(n) /\ SubSeq(n, 1, Len(prefix)) = prefix
starts_with_symbol(n) == n # <<>> /\ n[1] = "Symbol("

\* the byte a character (or "Symbol(") starts with, for the order of sort
Byte(c) ==
  CASE c = " " -> 32 [] c = ")" -> 41 [] c = "." -> 46
    [] c = "Symbol(" -> 83 [] c = "a" -> 97 [] c = "b" -> 98
RECURSIVE str_less(_, _)
str_less(x, y) ==
  IF y = <<>> THEN FALSE
  ELSE IF x = <<>> THEN TRUE
  ELSE IF Head(x) = Head(y) THEN str_less(Tail(x), Tail(y))
  ELSE Byte(Head(x)) < Byte(Head(y))

\* Iterator::filter
RECURSIVE filter_names(_, _, _)
filter_names(ns, prefix, no_symbols) ==
  IF ns = <<>> THEN <<>>
  ELSE IF str_starts_with(Head(ns), prefix)
            /\ ~(no_symbols /\ starts_with_symbol(Head(ns)))
  THEN <<Head(ns)>> \o filter_names(Tail(ns), prefix, no_symbols)
  ELSE filter_names(Tail(ns), prefix, no_symbols)

\* Vec::sort
RECURSIVE insert_sorted(_, _)
insert_sorted(sorted, n) ==
  IF sorted = <<>> THEN <<n>>
  ELSE IF str_less(n, Head(sorted)) THEN <<n>> \o sorted
  ELSE <<Head(sorted)>> \o insert_sorted(Tail(sorted), n)
RECURSIVE sort(_)
sort(ns) ==
  IF ns = <<>> THEN <<>>
  ELSE insert_sorted(sort(SubSeq(ns, 1, Len(ns) - 1)), ns[Len(ns)])
\* Vec::dedup: consecutive equal elements are removed
RECURSIVE dedup(_)
dedup(ns) ==
  IF Len(ns) <= 1 THEN ns
  ELSE IF ns[1] = ns[2] THEN dedup(Tail(ns))
  ELSE <<ns[1]>> \o dedup(Tail(ns))

\* what get_expression_property_names and get_global_lexical_scope_names
\* got from the protocol: kind is "Err" (of Runtime.evaluate, or of
\* Runtime.globalLexicalScopeNames), "exception", "no objectId",
\* "getProperties Err", "no result" or "names", with the names in the order
\* the protocol lists them; "none" before the answer
NoAnswer == [kind |-> "none", names |-> <<>>]

\* the Vec the two functions return when they return
get_expression_property_names(answer) == answer.names
get_global_lexical_scope_names(answer) == answer.names
\* post_message(..).unwrap() on an Err
unwrap_panics(answer) == answer.kind = "Err"

Panic(what) ==
  [kind |-> "panic", what |-> what, start |-> 0, overflow |-> FALSE,
   candidates |-> <<>>]
\* Ok((pos - len, candidates)): the subtraction of usize panics on overflow
\* in a build with overflow checks and wraps modulo 2^64 without them;
\* start is then the difference before wrapping
OkCandidates(pos, len, candidates, overflow_checks) ==
  IF len > pos /\ overflow_checks
  THEN Panic("attempt to subtract with overflow")
  ELSE [kind |-> "Ok", what |-> "", start |-> pos - len,
        overflow |-> len > pos, candidates |-> candidates]

\* the branch of `obj.prop`
complete_property(l, pos, properties, scope, overflow_checks) ==
  LET expr == get_expr_from_line_at_pos(l, pos)
      index == rfind_dot(expr)
      prop_name == SubSeq(expr, index + 2, Len(expr))
  IN IF unwrap_panics(properties) THEN Panic("unwrap")
     ELSE OkCandidates(pos, Len(prop_name),
            filter_names(get_expression_property_names(properties),
                         prop_name, TRUE),
            overflow_checks)

\* the branch of a global name
complete_global(l, pos, properties, scope, overflow_checks) ==
  LET expr == get_expr_from_line_at_pos(l, pos) IN
  IF unwrap_panics(properties) \/ unwrap_panics(scope) THEN Panic("unwrap")
  ELSE OkCandidates(pos, Len(expr),
         dedup(sort(filter_names(
           get_expression_property_names(properties)
             \o get_global_lexical_scope_names(scope), expr, FALSE))),
         overflow_checks)

complete(l, pos, properties, scope, overflow_checks) ==
  IF rfind_dot(get_expr_from_line_at_pos(l, pos)) # -1
  THEN complete_property(l, pos, properties, scope, overflow_checks)
  ELSE complete_global(l, pos, properties, scope, overflow_checks)

(* ------------- the line-reading unit and its EditorHelper -------------- *)
\* capacity of sync_channel(1)
MessageChannelBound == 1

\* the helper at the start of complete() for a line and a cursor:
\* get_expression_property_names comes first, for `obj.prop` or for
\* globalThis; panics says that the subtraction complete() returns with
\* panics: the word it subtracts from pos is longer than pos and the build
\* checks overflow (without the checks the start wraps and complete() returns)
HelperFor(l, pos, overflow_checks) ==
  LET expr == get_expr_from_line_at_pos(l, pos)
      index == rfind_dot(expr)
      len == IF index # -1 THEN Len(expr) - (index + 1) ELSE Len(expr)
  IN [kind |-> IF index # -1 THEN "prop" ELSE "global", stage |-> "probe",
      id |-> 0, got |-> 0, panics |-> len > pos /\ overflow_checks]

\* the helpers of the lines and cursors explored, in a build with overflow
\* checks and in one without
CompletionHelpers ==
  {HelperFor(x[1], x[2], c) :
     x \in {y \in CompletionLines \X (0..MaxLineLen) : y[2] <= Len(y[1])},
     c \in BOOLEAN}

\* the user asks for a completion of a line at a cursor, in either build
LT_Complete ==
  /\ lt = "reading" /\ completions < MaxCompletions
  /\ helper' \in CompletionHelpers
  /\ lt' = "sending"
  /\ completions' = completions + 1
  /\ UNCHANGED <<drvVars, helper_context_id, chanVars, protoVars, ctxVars, ev,
                 prev, reqSent, respSent, budget, user>>
  /\ UNCHANGED <<submitted, call, portVars>>

\* the request of each stage of complete()
HelperRequest(stage, id) ==
  CASE stage = "probe" ->
         Request("helper", "Runtime.evaluate", "probe", <<>>, Undefined,
                 {helper_context_id}, id)
    [] stage = "getProperties" ->
         Request("helper", "Runtime.getProperties", "getProperties", <<>>,
                 Undefined, {}, id)
    [] stage = "globalLexicalScopeNames" ->
         Request("helper", "Runtime.globalLexicalScopeNames",
                 "globalLexicalScopeNames", <<>>, Undefined,
                 {helper_context_id}, id)

\* post_message: self.message_tx.send(..)
LT_Send ==
  /\ lt = "sending" /\ Len(message_ch) < MessageChannelBound
  /\ message_ch' = Append(message_ch, HelperRequest(helper.stage, reqSent + 1))
  /\ reqSent' = reqSent + 1
  /\ helper' = [helper EXCEPT !.id = reqSent + 1, !.got = 0]
  /\ lt' = "waiting"
  /\ UNCHANGED <<drvVars, helper_context_id, response_ch, protoVars, ctxVars,
                 ev, prev, respSent, budget, user, completions>>
  /\ UNCHANGED <<submitted, call, portVars>>

\* after get_expression_property_names: complete() of a global name goes on
\* with get_global_lexical_scope_names, complete() of a property returns
\* Ok((pos - prop_name.len(), candidates)): the subtraction panics when it
\* overflows in a build with overflow checks
AfterPropertyNames(h) ==
  IF h.kind = "global" THEN [lt |-> "sending", stage |-> "globalLexicalScopeNames"]
  ELSE IF h.panics
  THEN [lt |-> "panicked", stage |-> "none"]
  ELSE [lt |-> "reading", stage |-> "none"]

\* what the helper does with the response of each stage: unwrap() of an
\* Err panics; getProperties is asked for when the probe gave an objectId;
\* after the last stage complete() returns Ok((pos - expr.len(), candidates))
HelperStep(h, r) ==
  CASE h.stage = "probe" ->
         IF r.err THEN [lt |-> "panicked", stage |-> "none"]
         ELSE IF r.exception THEN AfterPropertyNames(h)
         ELSE IF r.objectId THEN [lt |-> "sending", stage |-> "getProperties"]
         ELSE AfterPropertyNames(h)
    [] h.stage = "getProperties" -> AfterPropertyNames(h)
    [] h.stage = "globalLexicalScopeNames" ->
         IF r.err \/ h.panics
         THEN [lt |-> "panicked", stage |-> "none"]
         ELSE [lt |-> "reading", stage |-> "none"]

\* what get_expression_property_names and get_global_lexical_scope_names
\* make of the response r of a stage of the call c of complete(), and what
\* complete() returns after the last stage
Received(c, h, r) ==
  IF c.fn # "complete" THEN c
  ELSE LET got ==
             CASE h.stage = "probe" ->
                    [c EXCEPT !.properties =
                       IF r.err THEN [kind |-> "Err", names |-> <<>>]
                       ELSE IF r.exception
                       THEN [kind |-> "exception", names |-> <<>>]
                       ELSE IF r.objectId THEN NoAnswer
                       ELSE [kind |-> "no objectId", names |-> <<>>]]
               [] h.stage = "getProperties" ->
                    [c EXCEPT !.properties =
                       IF r.err
                       THEN [kind |-> "getProperties Err", names |-> <<>>]
                       ELSE IF r.listed
                       THEN [kind |-> "names", names |-> r.names]
                       ELSE [kind |-> "no result", names |-> <<>>]]
               [] h.stage = "globalLexicalScopeNames" ->
                    [c EXCEPT !.scope =
                       IF r.err THEN [kind |-> "Err", names |-> <<>>]
                       ELSE [kind |-> "names", names |-> r.names]]
       IN IF HelperStep(h, r).lt = "sending" THEN got
          ELSE [got EXCEPT !.done = TRUE,
                           !.result = complete(c.line, c.pos, got.properties,
                                               got.scope, c.overflow_checks)]

\* post_message: self.response_rx.recv(), and what the caller does with the
\* response
LT_Recv ==
  /\ lt = "waiting" /\ response_ch # <<>>
  /\ response_ch' = Tail(response_ch)
  /\ lt' = HelperStep(helper, Head(response_ch)).lt
  /\ helper' = [helper EXCEPT !.got = Head(response_ch).of,
                              !.stage = HelperStep(helper, Head(response_ch)).stage,
                              !.kind = IF HelperStep(helper, Head(response_ch)).lt = "sending"
                                       THEN @ ELSE "none",
                              !.panics = HelperStep(helper, Head(response_ch)).lt = "sending"
                                           /\ @]
  /\ call' = Received(call, helper, Head(response_ch))
  /\ UNCHANGED <<drvVars, helper_context_id, message_ch, protoVars, ctxVars,
                 ghostVars>>
  /\ UNCHANGED <<submitted, portVars>>

\* readline returns: a line, an interrupt, end of input or another error
LT_Finish ==
  /\ lt = "reading"
  /\ lt' = "done"
  /\ \/ /\ budget > 0
        /\ \E t \in user.lines :
             /\ line_result' = [kind |-> "Ok", text |-> t]
             /\ submitted' = Append(submitted, t)
        /\ budget' = budget - 1
     \/ /\ \E k \in {"Interrupted", "Eof", "Io"} :
             line_result' = [kind |-> k, text |-> <<>>]
        /\ UNCHANGED <<budget, submitted>>
  /\ UNCHANGED <<user, call, portVars>>
  /\ UNCHANGED <<pc, context_id, poll_worker, line, wrapped_line,
                 evaluate_response, output, history, saved, stdout, helper,
                 helper_context_id, chanVars, protoVars, ctxVars, ev, prev,
                 reqSent, respSent, completions>>

(* --------------------------- specification ---------------------------- *)
Driver ==
  \/ Initialize_Enable
  \/ Initialize_Context
  \/ Initialize_Done
  \/ ReadLineAndPoll_Spawn
  \/ Bridge_TryIter
  \/ Bridge_Respond
  \/ Bridge_SelectLine
  \/ Bridge_SelectEventLoop
  \/ Bridge_SelectTimeout
  \/ Run_Ok
  \/ Evaluate_First
  \/ Evaluate_FirstResponse
  \/ Evaluate_Retry
  \/ Evaluate_RetryResponse
  \/ Bookkeeping
  \/ GetEvalValue
  \/ Output_IsClosing
  \/ Run_IsClosing
  \/ Run_ReadlineError
  \/ Run_SaveHistory

LineUnit == LT_Complete \/ LT_Send \/ LT_Recv \/ LT_Finish

Next == Driver \/ Host \/ LineUnit

Spec == Init /\ [][Next]_vars

\* evaluate_line_and_get_output on every text up to MaxLen: the state of a
\* fresh session in which read_line_and_poll has just returned the text,
\* and the steps of run() up to the return of evaluate_line_and_get_output
WrapInit ==
  /\ pc = "match"
  /\ context_id \in ContextIds
  /\ poll_worker = FALSE
  /\ line_result \in [kind : {"Ok"}, text : Texts]
  /\ line = <<>>
  /\ wrapped_line = <<>>
  /\ evaluate_response = NoResponse
  /\ output = <<>>
  /\ history = <<>>
  /\ saved = 0
  /\ stdout = <<Hint>>
  /\ lt = "none"
  /\ helper = NoHelper
  /\ helper_context_id = context_id
  /\ message_ch = <<>>
  /\ response_ch = <<>>
  /\ pending = <<>>
  /\ reply = <<>>
  /\ notifications = <<>>
  /\ lastEvalResult = Undefined
  /\ lastThrownError = Undefined
  /\ globalThis = [n \in BindingNames |-> Tracking]
  /\ closed = FALSE
  /\ console = [n \in BindingNames |-> 0]
  /\ ev = NoEv
  /\ prev = NoPrev
  /\ reqSent = 0
  /\ respSent = 0
  /\ budget = 0
  /\ user = [lines |-> Texts, scripts |-> LiveEffects, names |-> EmptyLists,
             history_file |-> NoFile]
  /\ completions = 0
  /\ submitted = <<>>
  /\ NoPorts
  /\ call = NoCall

WrapNext ==
  \/ Run_Ok
  \/ Evaluate_First
  \/ Evaluate_FirstResponse
  \/ Evaluate_Retry
  \/ Evaluate_RetryResponse
  \/ Bookkeeping
  \/ GetEvalValue
  \/ Output_IsClosing
  \/ Host_EvaluateUser
  \/ Host_CallFunctionOn
  \/ Host_TransportError

SpecWrap == WrapInit /\ [][WrapNext]_vars

\* the scheduling the runtime guarantees: the driver task and the engine
\* make progress (the 100ms timeout of the select fires), and the
\* line-reading unit runs when it can send or receive; what the user does
\* (asking for a completion, finishing the line) is not forced
LiveInit == InitWith(MaxLiveLines, SessionLines, LiveEffects, {NoFile})
FairSpec ==
  /\ LiveInit /\ [][Next]_vars
  /\ WF_vars(Driver) /\ WF_vars(Host) /\ WF_vars(LT_Send) /\ WF_vars(LT_Recv)

\* sessions that start with or without a history file, with an empty line
\* among the lines typed
HistoryInit == InitWith(MaxLines, HistoryLines, HistoryEffects, HistoryFiles)
SpecHistory == HistoryInit /\ [][Next]_vars

\* a session whose engine may report an exception for the prelude
SpecPrelude == LiveInit /\ [][Next \/ Host_PreludeThrows]_vars

\* tokio::select! polls its branches in random order: the branch of the
\* line, ready in every select once readline has returned, is not passed
\* over forever
FairSelectSpec == FairSpec /\ SF_vars(Bridge_SelectLine)

(* ------------------- EditorHelper called by rustyline ------------------ *)
\* a fresh session blocked in readline: the state in which rustyline calls
\* validate, complete and highlight on the helper
ReadingWith(names) ==
  /\ pc = "select"
  /\ context_id \in ContextIds
  /\ poll_worker = TRUE
  /\ line_result = NoLine
  /\ line = <<>>
  /\ wrapped_line = <<>>
  /\ evaluate_response = NoResponse
  /\ output = <<>>
  /\ history = <<>>
  /\ saved = 0
  /\ stdout = <<Hint>>
  /\ lt = "reading"
  /\ helper = NoHelper
  /\ helper_context_id = context_id
  /\ message_ch = <<>>
  /\ response_ch = <<>>
  /\ pending = <<>>
  /\ reply = <<>>
  /\ notifications = <<>>
  /\ lastEvalResult = Undefined
  /\ lastThrownError = Undefined
  /\ globalThis = [n \in BindingNames |-> Tracking]
  /\ closed = FALSE
  /\ console = [n \in BindingNames |-> 0]
  /\ ev = NoEv
  /\ prev = NoPrev
  /\ reqSent = 0
  /\ respSent = 0
  /\ budget = MaxLines
  /\ user = [lines |-> SessionLines, scripts |-> Effects, names |-> names,
             history_file |-> NoFile]
  /\ completions = 0
  /\ submitted = <<>>
  /\ NoPorts
ReadingInit == ReadingWith(EmptyLists)

\* the variables of the session, which a call on the helper leaves alone
sessionVars == <<drvVars, ltVars, chanVars, protoVars, ctxVars, ghostVars,
                 submitted, portVars>>

(* ------------------------ EditorHelper::validate ----------------------- *)
\* the tokens validate looks at, any other token, and comments
Openers == {"LParen", "LBracket", "LBrace", "DollarLBrace"}
Closers == {"RParen", "RBracket", "RBrace"}
Items == Openers \cup Closers \cup {"BackQuote", "OtherToken", "Comment"}
\* ast::lex(ctx.input()) of the buffers explored
Buffers == UNION {[1..n -> Items] : n \in 0..MaxTokens}

\* ValidationResult
Valid == [kind |-> "Valid", msg |-> <<>>]
Incomplete == [kind |-> "Incomplete", msg |-> <<>>]
Invalid(left) ==
  [kind |-> "Invalid",
   msg |-> <<"Mismatched pairs: ", left, " is not properly closed">>]
Continue == [kind |-> "continue", msg |-> <<>>]

\* the mutant does not take `${` as closed by `}`
MatchesNoTemplate(left, token) ==
  \/ left = "LParen" /\ token = "RParen"
  \/ left = "LBracket" /\ token = "RBracket"
  \/ left = "LBrace" /\ token = "RBrace"
\* the four pairs of the match on (stack.pop(), token)
Matches(left, token) ==
  \/ left = "LParen" /\ token = "RParen"
  \/ left = "LBracket" /\ token = "RBracket"
  \/ left = "LBrace" /\ token = "RBrace"
  \/ left = "DollarLBrace" /\ token = "RBrace"

\* the mutant reports an invalid buffer for a closer on an empty stack
OnCloserStrict(stack, token) ==
  IF stack = <<>> THEN Invalid(token)
  ELSE IF Matches(stack[Len(stack)], token) THEN Continue
  ELSE Invalid(stack[Len(stack)])
\* match (stack.pop(), token): go on, or return the verdict
OnCloser(stack, token) ==
  IF stack = <<>> THEN Valid
  ELSE IF Matches(stack[Len(stack)], token) THEN Continue
  ELSE Invalid(stack[Len(stack)])

\* the loop over the items with its locals stack and in_template, and the
\* check after the loop
RECURSIVE validate_loop(_, _, _)
validate_loop(items, stack, in_template) ==
  IF items = <<>>
  THEN IF stack # <<>> \/ in_template THEN Incomplete ELSE Valid
  ELSE LET token == Head(items) IN
       CASE token = "BackQuote" ->
              validate_loop(Tail(items), stack, ~in_template)
         [] token \in Openers ->
              validate_loop(Tail(items), Append(stack, token), in_template)
         [] token \in Closers ->
              IF OnCloser(stack, token).kind = "continue"
              THEN validate_loop(Tail(items),
                                 SubSeq(stack, 1, Len(stack) - 1), in_template)
              ELSE OnCloser(stack, token)
         [] OTHER -> validate_loop(Tail(items), stack, in_template)

validate(input) == validate_loop(input, <<>>, FALSE)

ValidateInit ==
  /\ ReadingInit
  /\ call \in [fn : {"validate"}, input : Buffers, done : {FALSE},
                result : {Continue}]

\* rustyline calls validate on the buffer
Validate_Call ==
  /\ call.fn = "validate" /\ ~call.done
  /\ call' = [call EXCEPT !.done = TRUE, !.result = validate(call.input)]
  /\ UNCHANGED sessionVars

SpecValidate == ValidateInit /\ [][Validate_Call]_vars

(* ------------------------ EditorHelper::complete ----------------------- *)
\* the answers of the engine explored for a call of complete()
AnswerLists ==
  [getProperties |->
     [listed : {TRUE}, names : NameLists]
       \cup {[listed |-> FALSE, names |-> <<>>]},
   globalLexicalScopeNames |-> [listed : {TRUE}, names : ScopeNameLists]]

\* readline is running, and rustyline is about to call complete with a line
\* and a cursor, in a build with overflow checks or in one without
CompleteInit ==
  /\ ReadingWith(AnswerLists)
  /\ \E l \in CompletionLines, p \in 0..MaxLineLen, c \in BOOLEAN :
       /\ p <= Len(l)
       /\ call = [fn |-> "complete", line |-> l, pos |-> p, done |-> FALSE,
                  properties |-> NoAnswer, scope |-> NoAnswer,
                  overflow_checks |-> c,
                  result |-> Panic("")]

\* rustyline calls complete with the line and the cursor of the call
Complete_Call ==
  /\ call.fn = "complete" /\ completions = 0
  /\ LT_Complete
  /\ helper' = HelperFor(call.line, call.pos, call.overflow_checks)

\* the call of complete(): each request is sent to the bridge, which posts
\* it to the protocol and sends the response back, while the call blocks
CompleteNext ==
  \/ Complete_Call
  \/ LT_Send
  \/ LT_Recv
  \/ Bridge_TryIter
  \/ Bridge_Respond
  \/ Bridge_SelectEventLoop
  \/ Bridge_SelectTimeout
  \/ Host_Probe
  \/ Host_Names
  \/ Host_TransportError

SpecComplete == CompleteInit /\ [][CompleteNext]_vars

(* ------------------------ EditorHelper::highlight ---------------------- *)
\* one kind of item for every arm of the match in highlight; the text of
\* an item is one symbol, named like its kind
ItemKinds ==
  {"Str", "Regex", "Num", "True", "Keyword", "undefined", "Infinity",
   "async", "Ident", "Punct", "Comment"}
\* the lines explored: items separated by one blank
RECURSIVE Spaced(_)
Spaced(items) ==
  IF Len(items) <= 1 THEN items
  ELSE <<Head(items), " ">> \o Spaced(Tail(items))
HighlightLines ==
  {Spaced(items) : items \in UNION {[1..n -> ItemKinds] : n \in 0..MaxItems}}

\* ast::lex: the items of the line with their spans, in order
lex(l) ==
  LET at == {i \in 1..Len(l) : l[i] # " "}
      nth(k) == CHOOSE i \in at : Cardinality({j \in at : j < i}) = k - 1
  IN [k \in 1..Cardinality(at) |->
        [inner |-> l[nth(k)], span |-> [start |-> nth(k) - 1, end |-> nth(k)]]]

\* colors::green(..) etc.: the text between the escape codes of the color
\* when colors are in use, the text alone otherwise
Paint(color, text, use_color) ==
  IF use_color THEN <<color>> \o text \o <<"reset">> ELSE text

\* the match on item.inner
Colored(inner, text, use_color) ==
  CASE inner = "Str" -> Paint("green", text, use_color)
    [] inner = "Regex" -> Paint("red", text, use_color)
    [] inner = "Num" -> Paint("yellow", text, use_color)
    [] inner = "True" -> Paint("yellow", text, use_color)
    [] inner = "Keyword" -> Paint("cyan", text, use_color)
    [] inner = "undefined" -> Paint("gray", text, use_color)
    [] inner = "Infinity" -> Paint("yellow", text, use_color)
    [] inner = "async" -> Paint("cyan", text, use_color)
    [] inner = "Comment" -> Paint("gray", text, use_color)
    [] OTHER -> text

\* String::replace_range(start..end, with)
replace_range(str, start, end, with) ==
  SubSeq(str, 1, start) \o with \o SubSeq(str, end + 1, Len(str))

\* the mutant uses the spans of the line as they are
offset_none(out_line, l) == 0
\* let offset = out_line.len() - line.len()
offset_of(out_line, l) == Len(out_line) - Len(l)

\* the loop over the items
RECURSIVE highlight_loop(_, _, _, _)
highlight_loop(l, items, out_line, use_color) ==
  IF items = <<>> THEN out_line
  ELSE LET offset == offset_of(out_line, l)
           span == Head(items).span
       IN highlight_loop(l, Tail(items),
            replace_range(out_line, span.start + offset, span.end + offset,
                          Colored(Head(items).inner,
                                  SubSeq(l, span.start + 1, span.end),
                                  use_color)),
            use_color)

highlight(l, use_color) == highlight_loop(l, lex(l), l, use_color)

HighlightInit ==
  /\ ReadingInit
  /\ call \in [fn : {"highlight"}, line : HighlightLines,
                use_color : BOOLEAN, n : {0}, first : {<<>>}, second : {<<>>},
                sent : {0}]

\* rustyline calls highlight on the line, while readline is not inside
\* complete; sent is the number of requests the helper had sent before
\* the first call
Highlight_Call ==
  /\ call.fn = "highlight" /\ call.n < 2 /\ lt = "reading"
  /\ call' = IF call.n = 0
             THEN [call EXCEPT !.n = 1, !.sent = reqSent,
                               !.first = highlight(call.line, call.use_color)]
             ELSE [call EXCEPT !.n = 2,
                               !.second = highlight(call.line, call.use_color)]
  /\ UNCHANGED sessionVars

\* the calls of highlight and, around them, the requests of one completion
\* served by the bridge; the completion is one that returns to readline
\* (after a panic of complete() nothing calls highlight)
HighlightNext ==
  \/ Highlight_Call
  \/ (completions = 0 /\ LT_Complete /\ ~helper'.panics)
  \/ LT_Send
  \/ LT_Recv
  \/ Bridge_TryIter
  \/ Bridge_Respond
  \/ Bridge_SelectEventLoop
  \/ Bridge_SelectTimeout
  \/ Host_Probe
  \/ Host_Names

SpecHighlight == HighlightInit /\ [][HighlightNext]_vars

(* ---------------------------- message ports --------------------------- *)
\* calls of op_message_port_post_message, and ids listed in one call
MaxPosts == 2
MaxTransfer == 2

\* the variables of the read-eval-print loop, which the ops leave alone
replVars == <<drvVars, ltVars, chanVars, protoVars, ctxVars, ghostVars,
              submitted, call>>

\* create_entangled_message_port: the sender of each port feeds the
\* receiver of the other
Peer(p) == IF p % 2 = 1 THEN p + 1 ELSE p - 1

\* Resource::name of MessagePortResource
IsMessagePort(table, rid) ==
  rid \in DOMAIN table /\ table[rid].name = "messagePort"
MessagePortResource(p) == [name |-> "messagePort", port |-> p]
\* ResourceTable::take and ::close remove the entry
Without(table, rid) == [r \in DOMAIN table \ {rid} |-> table[r]]

\* the ports inside the messages of the receiver of port p
InTransit(queues, p) ==
  UNION {{m.transferables[i] : i \in DOMAIN m.transferables} :
           m \in {queues[p][k] : k \in DOMAIN queues[p]}}
\* dropping a MessagePort drops its receiver with the messages in it, and
\* with them the ports those messages carry
RECURSIVE DropAll(_, _)
DropAll(ports, queues) ==
  LET more == UNION {InTransit(queues, p) : p \in ports} IN
  IF more \subseteq ports THEN ports ELSE DropAll(ports \cup more, queues)
Drop(ports, queues) ==
  /\ live' = live \ DropAll(ports, queues)
  /\ rx' = [p \in PortIds |->
              IF p \in DropAll(ports, queues) THEN <<>> ELSE queues[p]]

\* deserialize_js_transferables: every id is taken out of the table and
\* cancelled before Rc::try_unwrap is tried; the recv future of a port
\* holds a second reference of its resource. On an error the ports
\* unwrapped so far are dropped with the vector.
RECURSIVE deserialize_js_transferables(_, _, _, _)
deserialize_js_transferables(js_transferables, table, futures, transferables) ==
  IF js_transferables = <<>>
  THEN [kind |-> "Ok", error |-> "", table |-> table, recv_op |-> futures,
        transferables |-> transferables]
  ELSE LET id == Head(js_transferables) IN
       IF ~IsMessagePort(table, id)
       THEN [kind |-> "Err", error |-> "Invalid message port transfer",
             table |-> table, recv_op |-> futures,
             transferables |-> transferables]
       ELSE LET p == table[id].port IN
            IF futures[p] = "pending"
            THEN [kind |-> "Err",
                  error |-> "Message port is not ready for transfer",
                  table |-> Without(table, id),
                  recv_op |-> [futures EXCEPT ![p] = "cancelled"],
                  transferables |-> transferables]
            ELSE deserialize_js_transferables(Tail(js_transferables),
                   Without(table, id), futures, Append(transferables, p))

\* serialize_transferables: resource_table.add for every port, in order
RECURSIVE serialize_transferables(_, _, _, _)
serialize_transferables(transferables, table, rid, js_transferables) ==
  IF transferables = <<>>
  THEN [table |-> table, next_rid |-> rid, rids |-> js_transferables]
  ELSE serialize_transferables(Tail(transferables),
         table @@ (rid :> MessagePortResource(Head(transferables))),
         rid + 1, Append(js_transferables, rid))

\* the mutant puts the message in front of the ones waiting
send_front(queue, message) == <<message>> \o queue
\* self.tx.send(..) on the unbounded channel
send(queue, message) == Append(queue, message)

\* the ids a call can name: the ids of the table, among them resource 0,
\* and one id that is not in the table
Rids == DOMAIN resource_table \cup {next_rid}
TransferLists == UNION {[1..n -> Rids] : n \in 0..MaxTransfer}

op_message_port_create_entangled ==
  /\ pairs < MaxPairs
  /\ pairs' = pairs + 1
  /\ LET port1 == 2 * pairs + 1
         port2 == 2 * pairs + 2 IN
     /\ resource_table' =
          resource_table @@ (next_rid :> MessagePortResource(port1))
                         @@ ((next_rid + 1) :> MessagePortResource(port2))
     /\ live' = live \cup {port1, port2}
  /\ next_rid' = next_rid + 2
  /\ ret' = Ret("create", "Ok", "", 0, <<next_rid, next_rid + 1>>)
  /\ UNCHANGED <<rx, recv_op, posts, posted, received, replVars>>

\* the data of a message is the number of the call that posts it
op_message_port_post_message ==
  /\ posts < MaxPosts
  /\ posts' = posts + 1
  /\ \E rid \in Rids, ids \in TransferLists :
       IF \E i \in DOMAIN ids : ids[i] = rid
       THEN /\ ret' = Ret("post", "Err", "Can not transfer self message port",
                          posts + 1, <<>>)
            /\ UNCHANGED <<resource_table, rx, live, recv_op, posted>>
       ELSE IF ~IsMessagePort(resource_table, rid)
       THEN /\ ret' = Ret("post", "Err", "Bad resource ID", posts + 1, <<>>)
            /\ UNCHANGED <<resource_table, rx, live, recv_op, posted>>
       ELSE LET port == resource_table[rid].port
                d == deserialize_js_transferables(ids, resource_table,
                                                  recv_op, <<>>)
                message == [data |-> posts + 1,
                            transferables |-> d.transferables]
            IN /\ resource_table' = d.table
               /\ recv_op' = d.recv_op
               /\ ret' = Ret("post", d.kind, d.error, posts + 1, <<>>)
               /\ IF d.kind = "Ok" /\ Peer(port) \in live
                  THEN /\ rx' = [rx EXCEPT
                                   ![Peer(port)] = send(@, message)]
                       /\ live' = live
                  ELSE Drop({d.transferables[i] :
                               i \in DOMAIN d.transferables}, rx)
               /\ posted' = IF d.kind = "Ok"
                            THEN [posted EXCEPT ![port] = Append(@, posts + 1)]
                            ELSE posted
  /\ UNCHANGED <<next_rid, pairs, received, replVars>>

\* what the recv future of port p returns when it is polled and does not
\* stay pending: the error of or_cancel, the message at the head of the
\* receiver, or None once the sender is dropped and the receiver is empty.
\* The future held the last reference of a cancelled resource.
Recv_Return(p, cancelled) ==
  /\ recv_op' = [recv_op EXCEPT ![p] = "none"]
  /\ \/ /\ cancelled
        /\ ret' = Ret("recv", "Err", "Canceled", 0, <<>>)
        /\ Drop({p}, rx)
        /\ UNCHANGED <<resource_table, next_rid, received>>
     \/ /\ rx[p] # <<>>
        /\ LET s == serialize_transferables(Head(rx[p]).transferables,
                                            resource_table, next_rid, <<>>)
               rest == [rx EXCEPT ![p] = Tail(@)]
           IN /\ resource_table' = s.table
              /\ next_rid' = s.next_rid
              /\ ret' = Ret("recv", "Some", "", Head(rx[p]).data, s.rids)
              /\ IF cancelled THEN Drop({p}, rest)
                 ELSE rx' = rest /\ live' = live
        /\ received' = [received EXCEPT ![p] = Append(@, Head(rx[p]).data)]
     \/ /\ rx[p] = <<>> /\ Peer(p) \notin live
        /\ ret' = Ret("recv", "None", "", 0, <<>>)
        /\ IF cancelled THEN Drop({p}, rx) ELSE UNCHANGED <<rx, live>>
        /\ UNCHANGED <<resource_table, next_rid, received>>

\* the first poll of the op: rx.recv() is pending while the receiver is
\* empty and the sender lives, and also, whatever the receiver holds, when
\* the task has used up its budget of operations for this poll
op_message_port_recv_message ==
  /\ \E rid \in Rids :
       IF ~IsMessagePort(resource_table, rid)
       THEN /\ ret' = Ret("recv", "None", "", 0, <<>>)
            /\ UNCHANGED <<resource_table, next_rid, rx, live, recv_op,
                           received>>
       ELSE LET p == resource_table[rid].port IN
            IF recv_op[p] # "none"
            THEN /\ ret' = Ret("recv", "Err",
                               "Port receiver is already borrowed", 0, <<>>)
                 /\ UNCHANGED <<resource_table, next_rid, rx, live, recv_op,
                                received>>
            ELSE \/ /\ recv_op' = [recv_op EXCEPT ![p] = "pending"]
                    /\ ret' = Ret("recv", "Pending", "", 0, <<>>)
                    /\ UNCHANGED <<resource_table, next_rid, rx, live,
                                   received>>
                 \/ /\ ~(rx[p] = <<>> /\ Peer(p) \in live)
                    /\ Recv_Return(p, FALSE)
  /\ UNCHANGED <<pairs, posts, posted, replVars>>

\* the future is polled again: a message is in the receiver, the sender
\* was dropped, or the resource was cancelled
Recv_Wake ==
  /\ \E p \in PortIds :
       /\ recv_op[p] # "none"
       /\ Recv_Return(p, recv_op[p] = "cancelled")
  /\ UNCHANGED <<pairs, posts, posted, replVars>>

\* ResourceTable::close: the entry is removed and Resource::close cancels
\* the handle; the port is dropped unless its recv future holds it
Resource_close ==
  /\ \E rid \in DOMAIN resource_table :
       /\ IsMessagePort(resource_table, rid)
       /\ LET p == resource_table[rid].port IN
          /\ resource_table' = Without(resource_table, rid)
          /\ IF recv_op[p] = "pending"
             THEN /\ recv_op' = [recv_op EXCEPT ![p] = "cancelled"]
                  /\ UNCHANGED <<rx, live>>
             ELSE Drop({p}, rx) /\ recv_op' = recv_op
       /\ ret' = Ret("close", "Ok", "", 0, <<>>)
  /\ UNCHANGED <<next_rid, pairs, posts, posted, received, replVars>>

PortInit == ReadingInit /\ call = NoCall
PortNext ==
  \/ op_message_port_create_entangled
  \/ op_message_port_post_message
  \/ op_message_port_recv_message
  \/ Recv_Wake
  \/ Resource_close
SpecPort == PortInit /\ [][PortNext]_vars

(* ------------------------------ properties ---------------------------- *)
\* positions of run() inside evaluate_line_and_get_output and is_closing
EvalPcs ==
  {"wrapped", "evaluate1", "retry", "evaluate2", "bookkeeping", "booked",
   "inspect", "is_closing"}
\* positions of run() inside read_line_and_poll
BridgePcs == {"drain", "serve", "select"}
HelperWhats == {"probe", "getProperties", "globalLexicalScopeNames"}

\* requests on the protocol channel: posted and not answered, or answered
\* and not yet taken by the caller
InFlight == Len(pending) + Len(reply)
HelperInFlight ==
  Cardinality({i \in 1..Len(pending) : pending[i].from = "helper"})
    + Cardinality({i \in 1..Len(reply) : reply[i].what \in HelperWhats})
UserEvaluationsInFlight ==
  Cardinality({i \in 1..Len(pending) : pending[i].what = "user"})
    + Cardinality({i \in 1..Len(reply) : reply[i].what = "user"})
\* a request of EditorHelper is about to be sent, pending, being serviced
\* or answered and not yet received
HelperPending ==
  \/ lt \in {"sending", "waiting"}
  \/ message_ch # <<>>
  \/ response_ch # <<>>
  \/ HelperInFlight > 0

\* C1: at most one request is in flight on the protocol channel, at most
\* one evaluation is in flight, no EditorHelper request is pending or
\* serviced while run() is in evaluate_line_and_get_output or is_closing,
\* and EditorHelper requests are serviced only inside read_line_and_poll,
\* before it returns the line
C1_OneRequestInFlight ==
  /\ InFlight <= 1
  /\ UserEvaluationsInFlight <= 1
  /\ pc \in EvalPcs => ~HelperPending
  /\ HelperInFlight > 0 => pc = "serve"
  /\ HelperPending => pc \in BridgePcs /\ lt # "done"

\* a request of EditorHelper is being serviced in a session that has
\* already evaluated a line
C1_Witness ==
  /\ pc = "serve" /\ HelperInFlight = 1 /\ InFlight = 1
  /\ history # <<>>

\* C2: every request EditorHelper.post_message sends is eventually received
\* by the bridge and answered, so the recv of that call returns with the
\* answer to that request; the bridge does not return while a request is
\* unanswered
C2_RequestsAnswered ==
  /\ \A i \in 1..(3 * (MaxCompletions + 1)) :
       (lt = "waiting" /\ helper.id = i) ~> (lt # "waiting" /\ helper.got = i)
  /\ [](pc \notin BridgePcs => message_ch = <<>> /\ lt # "waiting")

\* the helper got the answer to a request it sent while readline was blocked
C2_Witness ==
  /\ lt = "reading" /\ helper.id > 0 /\ helper.got = helper.id
  /\ pc \in BridgePcs

\* messages of EditorHelper that are sent and whose response the helper has
\* not received yet
Outstanding ==
  Len(message_ch) + HelperInFlight + Len(response_ch)

\* C3: at most one EditorHelper request is outstanding: either channel
\* holds at most one message, no more responses than requests were sent,
\* and the response a post_message call receives is the one of the request
\* that call sent, with nothing left over for a later call
C3_SingleOutstanding ==
  /\ Len(message_ch) <= 1
  /\ Len(response_ch) <= 1
  /\ respSent <= reqSent
  /\ Outstanding <= 1
  /\ (lt = "waiting") = (reqSent > 0 /\ helper.got # helper.id)
  /\ lt # "waiting" =>
       /\ Outstanding = 0
       /\ reqSent = respSent
       /\ helper.id # 0 => helper.got = helper.id

\* the second post_message of a completion received the response of its own
\* request
C3_Witness ==
  /\ reqSent >= 2 /\ respSent = reqSent
  /\ lt # "waiting" /\ helper.got = reqSent

\* the line was wrapped in parentheses
Wrapped == wrapped_line # line
\* evaluate_line_and_get_output has returned for the current line
LineEvaluated == pc = "is_closing"

\* C4: a line that was wrapped and whose wrapped form fails (as the wrapped
\* form of a genuine block statement does) is evaluated again in its
\* unwrapped form, and the result of that second evaluation is reported
C4_BlockFallsBack ==
  (LineEvaluated /\ Wrapped /\ ev.firstFailed # "no") =>
    /\ ev.attempts = 2
    /\ ev.last = line
    /\ ~ev.diag => output = FormatOutput(evaluate_response, Inspect(evaluate_response.value))

\* C5: a line gets at most two evaluation attempts and so at most two
\* evaluations are sent; the second attempt is made only for a wrapped line
\* whose first response carried an exception, it evaluates the unwrapped
\* line, and its response is final; a line that is not wrapped, or whose
\* first response has no exception, gets exactly one attempt
C5_AtMostOneRetry ==
  /\ ev.attempts <= 2 /\ ev.sent <= ev.attempts
  /\ ev.attempts >= 1 => ev.first = wrapped_line
  /\ ev.attempts = 2 =>
       /\ Wrapped
       /\ ev.firstFailed = "exception"
       /\ ev.last = line
  /\ pc = "evaluate2" => ev.attempts = 2
  /\ (pc \in {"bookkeeping", "booked", "inspect"} /\ ev.attempts = 2) =>
       evaluate_response.what = "user" /\ ev.sent = 2
  /\ (pc \in {"bookkeeping", "booked", "inspect", "is_closing"}
        /\ (~Wrapped \/ ev.firstFailed = "no")) => ev.attempts = 1
  /\ (pc \in {"bookkeeping", "booked", "inspect"} /\ ev.attempts = 1) =>
       ev.sent = 1

\* the retry of a wrapped line threw as well and its response is final
C5_Witness ==
  /\ pc = "bookkeeping" /\ ev.attempts = 2 /\ ev.sent = 2
  /\ evaluate_response.exception

\* the first character that is not whitespace is `{` and the last one is
\* not `;`
StartsWithBraceNoSemicolon(l) ==
  /\ \E i \in 1..Len(l) :
       l[i] = "{" /\ \A j \in 1..(i - 1) : l[j] = " "
  /\ ~\E i \in 1..Len(l) :
       l[i] = ";" /\ \A j \in (i + 1)..Len(l) : l[j] = " "

\* C6: the text submitted first is `(<line>)` exactly when the line, leading
\* whitespace ignored, starts with `{` and, trailing whitespace ignored,
\* does not end with `;`, and is the line itself otherwise; when that first
\* evaluation gives a value, the value is what is displayed
C6_WrapDecision ==
  /\ ev.attempts >= 1 =>
       ev.first = IF StartsWithBraceNoSemicolon(line)
                  THEN <<"(">> \o line \o <<")">> ELSE line
  /\ (LineEvaluated /\ ev.attempts = 1 /\ ~ev.diag
        /\ ~evaluate_response.exception) =>
       output = Inspect(evaluate_response.value)

\* a line with leading whitespace before `{` was wrapped and displayed
C6_Witness ==
  /\ LineEvaluated /\ Len(line) = 3 /\ line[1] = " " /\ line[2] = "{"
  /\ ev.first = <<"(">> \o line \o <<")">>
  /\ ev.attempts = 1 /\ output = Inspect("v1")

\* C7: after a line whose final response is not a parse diagnostic exactly
\* one tracking binding was updated: lastThrownError with the thrown value
\* when the final response carries an exception, lastEvalResult with the
\* value otherwise, the other one unchanged; while `_` (`_error`) is not
\* overridden, evaluating it as the next line after a successful (throwing)
\* line yields that line's value
C7_TrackingBindings ==
  /\ (LineEvaluated /\ ~ev.diag /\ evaluate_response.exception) =>
       /\ ev.booked = "lastThrownError"
       /\ lastThrownError = evaluate_response.value
       /\ lastEvalResult = ev.before.lastEvalResult
  /\ (LineEvaluated /\ ~ev.diag /\ ~evaluate_response.exception) =>
       /\ ev.booked = "lastEvalResult"
       /\ lastEvalResult = evaluate_response.value
       /\ lastThrownError = ev.before.lastThrownError
  /\ (LineEvaluated /\ ~ev.diag /\ ev.effect.k = "read_"
        /\ globalThis["_"].tag = "Tracking" /\ prev.kind = "value") =>
       ~evaluate_response.exception /\ evaluate_response.value = prev.value
  /\ (LineEvaluated /\ ~ev.diag /\ ev.effect.k = "read_error"
        /\ globalThis["_error"].tag = "Tracking" /\ prev.kind = "exception") =>
       ~evaluate_response.exception /\ evaluate_response.value = prev.value

\* `_error` was evaluated right after a line that threw v2 and gave v2
C7_Witness ==
  /\ LineEvaluated /\ ev.effect.k = "read_error"
  /\ globalThis["_error"].tag = "Tracking"
  /\ prev = [kind |-> "exception", value |-> "v2"]
  /\ evaluate_response.value = "v2"
  /\ lastEvalResult = "v2" /\ lastThrownError = "v2"

AssignKind(n) == IF n = "_" THEN "assign_" ELSE "assign_error"
ReadKind(n) == IF n = "_" THEN "read_" ELSE "read_error"

\* C8: the notice of a binding is printed exactly once, at its first
\* assignment; from then on the binding is UserOverridden and keeps the
\* assigned value through every later evaluation, until the user assigns
\* again, which prints nothing; the two bindings do not affect each other
C8_OverrideOnce ==
  /\ [](\A n \in BindingNames :
          /\ console[n] = IF globalThis[n].tag = "UserOverridden" THEN 1 ELSE 0
          /\ (LineEvaluated /\ ~ev.diag /\ ev.effect.k = ReadKind(n)
                /\ globalThis[n].tag = "UserOverridden") =>
               evaluate_response.value = globalThis[n].value)
  /\ [][\A n \in BindingNames :
          /\ globalThis[n].tag = "UserOverridden" =>
               /\ globalThis'[n].tag = "UserOverridden"
               /\ console'[n] = console[n]
          /\ (globalThis[n].tag # "absent" /\ globalThis'[n] # globalThis[n]) =>
               /\ ev'.effect = [k |-> AssignKind(n), v |-> globalThis'[n].value]
               /\ \A m \in BindingNames \ {n} :
                    globalThis'[m] = globalThis[m] /\ console'[m] = console[m]
      ]_vars

\* after `_ = v1` a later line evaluated to v2: `_` is still v1, one notice
C8_Witness ==
  /\ LineEvaluated /\ ev.effect = [k |-> "pure", v |-> "v2"]
  /\ globalThis["_"] = UserOverridden("v1")
  /\ lastEvalResult = "v2"
  /\ console["_"] = 1 /\ console["_error"] = 0

ClosedRequests ==
  Cardinality({i \in 1..Len(pending) : pending[i].what = "closed"})
    + Cardinality({i \in 1..Len(reply) : reply[i].what = "closed"})

\* the closed flag is asked for only after an evaluation; when it is found
\* set the evaluation had run to completion with its bookkeeping, and the
\* loop ends without printing the output, without adding the line to the
\* history and without reading another line
ClosingEndsLoop ==
  /\ [](ClosedRequests > 0 => pc = "is_closing" /\ ev.attempts >= 1)
  /\ [](pc \in {"loop", "drain", "serve", "select", "match"} => ClosedRequests = 0)
  /\ [](ev.closing =>
          /\ pc \in {"save", "done", "failed"}
          /\ ~ev.printed /\ ~ev.added
          /\ lt = "none"
          /\ ~ev.diag => ev.booked # "none" /\ ev.inspected
          /\ pc = "done" => saved = 1)
  /\ [][(pc = "is_closing" /\ pc' \notin {"is_closing", "failed"}) =>
          IF closed
          THEN /\ ev'.closing /\ pc' = "save"
               /\ stdout' = stdout /\ history' = history
          ELSE ~ev'.closing /\ pc' = "loop"
      ]_vars

\* C9 as stated: closing is checked after the evaluation only and ends
\* the loop without output, without history entry and without another
\* read, and the history is saved
C9_ClosingEndsLoop ==
  /\ ClosingEndsLoop
  /\ [](ev.closing => pc \in {"save", "done"})
  /\ [][pc = "save" => pc' = "done" /\ saved' = saved + 1 /\ history' = history]_vars

\* C9: closing is checked after the evaluation only and ends the loop
\* without output, without history entry and without another read; then
\* save_history is called: the history is saved, or saving fails, nothing
\* is saved and run() returns the error
C9_ClosingEndsLoopSaveMayFail ==
  /\ ClosingEndsLoop
  /\ [](ev.closing /\ pc = "failed" => saved = 0)
  /\ [][pc = "save" =>
          /\ history' = history /\ stdout' = stdout
          /\ \/ pc' = "done" /\ saved' = saved + 1
             \/ pc' = "failed" /\ saved' = saved]_vars

\* a line whose evaluation set the closed flag ended the session
C9_Witness ==
  /\ pc = "done" /\ ev.closing /\ ev.effect.k = "close"
  /\ ev.inspected /\ ev.booked = "lastEvalResult"
  /\ saved = 1 /\ Len(history) = 1

\* C10: an interrupt prints the hint and the loop goes on with the next
\* read: nothing is sent, no binding changes, the history is unchanged, and
\* no protocol call is in flight when the interrupt is handled
C10_InterruptContinues ==
  /\ [](pc = "match" =>
          /\ InFlight = 0 /\ message_ch = <<>> /\ response_ch = <<>>
          /\ lt = "none")
  /\ [][(pc = "match" /\ line_result.kind = "Interrupted" /\ pc' # pc) =>
          /\ pc' = "loop"
          /\ stdout' = <<Hint>>
          /\ UNCHANGED <<history, saved, protoVars, chanVars, ctxVars, ev, prev>>
      ]_vars
  /\ [][(pc = "loop" /\ pc' # pc) => pc' = "drain" /\ lt' = "reading"]_vars

\* an interrupt was handled after a line had been evaluated
C10_Witness ==
  /\ pc = "loop" /\ line_result.kind = "Interrupted"
  /\ stdout = <<Hint>> /\ Len(history) = 1

\* what the editor holds once the lines ls were handed to it, in that
\* order, after the entries h: an empty line and a line equal to the entry
\* before it leave no entry, and only the newest max_history_size entries
\* are held
RECURSIVE Recorded(_, _)
Recorded(h, ls) ==
  IF ls = <<>> THEN h
  ELSE LET l == Head(ls)
           n == Len(h)
       IN Recorded(IF l = <<>> THEN h
                   ELSE IF n > 0 /\ h[n] = l THEN h
                   ELSE IF n >= max_history_size
                        THEN SubSeq(h, 2, n) \o <<l>>
                   ELSE h \o <<l>>,
                   Tail(ls))
\* the entries the history file held when run() started
Loaded ==
  IF user.history_file.exists
  THEN Recorded(<<>>, user.history_file.entries) ELSE <<>>
\* the last submitted line has not been handed to the editor: readline has
\* just returned it, it is being evaluated, or it was detected as closing
LastLineOpen ==
  /\ submitted # <<>>
  /\ \/ pc \in BridgePcs \cup {"match"} /\ line_result.kind = "Ok"
     \/ pc \in EvalPcs
     \/ pc \in {"save", "done"} /\ ev.closing
\* the submitted lines that were evaluated and not detected as closing
Evaluated ==
  IF LastLineOpen THEN SubSeq(submitted, 1, Len(submitted) - 1)
  ELSE submitted

\* the loop ends on end of input and on every readline error other than
\* an interrupt, the error being printed first; the loop ends only on those
\* and on closing; the history is saved at most once, after the loop
LoopEnd ==
  /\ [][(pc = "match" /\ line_result.kind \in {"Eof", "Io"} /\ pc' # pc) =>
          /\ pc' = "save"
          /\ history' = history
          /\ stdout' = IF line_result.kind = "Io"
                       THEN <<ErrorOutput, "Io">> ELSE stdout
      ]_vars
  /\ [][(pc # "save" /\ pc' = "save") =>
          \/ pc = "match" /\ line_result.kind \in {"Eof", "Io"}
          \/ pc = "is_closing" /\ closed /\ ev'.closing
      ]_vars
  /\ [][saved' # saved => pc = "save" /\ pc' = "done" /\ saved' = saved + 1]_vars
  /\ [](saved = IF pc = "done" THEN 1 ELSE 0)
  /\ [](pc \in {"save", "done"} => lt = "none" /\ InFlight = 0)
  /\ [](pc \in EvalPcs => submitted # <<>> /\ line = submitted[Len(submitted)])

\* C11 as stated: the loop ends on end of input, on a readline error
\* other than an interrupt and on closing, and whenever it ends the history
\* is saved exactly once, with the evaluated lines in submission order
C11_LoopEndSavesHistory ==
  /\ LoopEnd
  /\ [][(pc = "save" /\ pc' # pc) => pc' = "done" /\ saved' = saved + 1]_vars
  /\ [](pc \in {"save", "done"} => history = Evaluated)

\* C11: the loop ends on end of input, on a readline error other than an
\* interrupt and on closing; whenever it ends save_history is called once:
\* the history is saved exactly once, or saving fails, nothing is saved and
\* run() returns the error; the history holds the entries loaded from the
\* history file followed, in submission order, by the evaluated lines that
\* were not detected as closing, without the empty lines and the lines
\* equal to the entry before them
C11_LoopEndSaveMayFail ==
  /\ LoopEnd
  /\ [][(pc = "save" /\ pc' # pc) =>
          /\ history' = history
          /\ \/ pc' = "done" /\ saved' = saved + 1
             \/ pc' = "failed" /\ saved' = saved]_vars
  /\ [][pc = "done" => pc' = "done" /\ saved' = saved]_vars
  /\ [](pc \in {"start", "enable", "prelude"} => history = <<>>)
  /\ [](pc \notin {"start", "enable", "prelude", "failed"} =>
          history = Recorded(Loaded, Evaluated))

\* the history file held one entry; the same line was evaluated, then a
\* different one, then readline failed: the error was printed and the
\* history saved once, with the loaded entry, not repeated, and the new line
C11_Witness ==
  /\ pc = "done" /\ saved = 1 /\ line_result.kind = "Io"
  /\ stdout = <<ErrorOutput, "Io">>
  /\ user.history_file.exists
  /\ Len(submitted) = 2 /\ submitted[1] = user.history_file.entries[1]
  /\ ~ev.closing
  /\ history = <<submitted[1], submitted[2]>> /\ submitted[1] # submitted[2]

\* pairs of an opener and the closer that closes it
Pair(o, c) ==
  \/ o = "LParen" /\ c = "RParen"
  \/ o = "LBracket" /\ c = "RBracket"
  \/ o \in {"LBrace", "DollarLBrace"} /\ c = "RBrace"

\* the brackets at positions i..j are properly nested
RECURSIVE Nested(_, _, _)
Nested(b, i, j) ==
  IF i > j THEN TRUE
  ELSE IF b[i] \in Closers THEN FALSE
  ELSE IF b[i] \in Openers
  THEN \E k \in (i + 1)..j :
         Pair(b[i], b[k]) /\ Nested(b, i + 1, k - 1) /\ Nested(b, k + 1, j)
  ELSE Nested(b, i + 1, j)

BackQuotes(b) == {i \in 1..Len(b) : b[i] = "BackQuote"}
\* every bracket, template opener and backtick of the buffer is balanced
Balanced(b) ==
  Nested(b, 1, Len(b)) /\ Cardinality(BackQuotes(b)) % 2 = 0

\* the opener at i is closed by a closer among the positions up to n
ClosedUpTo(b, i, n) ==
  \E k \in (i + 1)..n : Pair(b[i], b[k]) /\ Nested(b, i + 1, k - 1)
\* the openers among the first n items that no closer among them closes
UnclosedOpeners(b, n) ==
  {i \in 1..n : b[i] \in Openers /\ ~ClosedUpTo(b, i, n)}
\* the closer at k closes an opener
ClosesAnOpener(b, k) ==
  \E i \in 1..(k - 1) :
    b[i] \in Openers /\ Pair(b[i], b[k]) /\ Nested(b, i + 1, k - 1)
\* the closers that close nothing
StrayClosers(b) ==
  {k \in 1..Len(b) : b[k] \in Closers /\ ~ClosesAnOpener(b, k)}
\* an opener, or an opening backtick, is never closed
HasUnclosedOpener(b) ==
  UnclosedOpeners(b, Len(b)) # {} \/ Cardinality(BackQuotes(b)) % 2 = 1
Max(S) == CHOOSE x \in S : \A y \in S : y <= x
Min(S) == CHOOSE x \in S : \A y \in S : x <= y

\* C12 as stated: a balanced buffer is Valid, and a buffer with an opener
\* or an opening backtick that is never closed is Incomplete
C12_UnclosedIsIncomplete ==
  (call.fn = "validate" /\ call.done) =>
    /\ Balanced(call.input) => call.result = Valid
    /\ HasUnclosedOpener(call.input) => call.result = Incomplete

\* C12, amended: a balanced buffer is Valid; a buffer with an opener or an
\* opening backtick that is never closed is Incomplete when every closer
\* of the buffer closes an opener, and only a buffer with one is Incomplete
C12_ValidOrIncomplete ==
  (call.fn = "validate" /\ call.done) =>
    /\ Balanced(call.input) => call.result = Valid
    /\ (HasUnclosedOpener(call.input) /\ StrayClosers(call.input) = {}) =>
         call.result = Incomplete
    /\ call.result = Incomplete => HasUnclosedOpener(call.input)

\* `${` is closed by `}` inside a parenthesis that stays open: Incomplete
C12_Witness ==
  /\ call.fn = "validate" /\ call.done
  /\ call.input = <<"LParen", "DollarLBrace", "RBrace">>
  /\ call.result = Incomplete

\* C13: the first closer that closes nothing decides: Invalid, naming the
\* opener on top of the stack, when an opener (then of another kind) is
\* open at that point, Valid without a diagnostic when none is; `}` on top
\* of `{` or of `${` is not such a closer
C13_FirstMismatchDecides ==
  (call.fn = "validate" /\ call.done) =>
    LET b == call.input IN
    /\ StrayClosers(b) # {} =>
         LET k == Min(StrayClosers(b))
             open == UnclosedOpeners(b, k - 1) IN
         IF open = {} THEN call.result = Valid
         ELSE /\ call.result = Invalid(b[Max(open)])
              /\ ~Pair(b[Max(open)], b[k])
    /\ call.result.kind = "Invalid" => StrayClosers(b) # {}
    /\ \A i \in 1..(Len(b) - 1) :
         (b[i] \in {"LBrace", "DollarLBrace"} /\ b[i + 1] = "RBrace") =>
           /\ i + 1 \notin StrayClosers(b)
           /\ call.result =
                validate(SubSeq(b, 1, i - 1) \o SubSeq(b, i + 2, Len(b)))

\* `[ ( ]`: the `]` meets `(`, which the verdict names
C13_Witness ==
  /\ call.fn = "validate" /\ call.done
  /\ call.input = <<"LBracket", "LParen", "RBracket">>
  /\ call.result = Invalid("LParen")

Range(f) == {f[i] : i \in DOMAIN f}
\* the part of the run right of its last `.`, the run itself without one
RightPart(run) ==
  IF \E i \in 1..Len(run) : run[i] = "."
  THEN SubSeq(run, Max({i \in 1..Len(run) : run[i] = "."}) + 1, Len(run))
  ELSE run
\* the names complete is to offer for the run, given the names the
\* protocol listed
Offered(run, properties, scope) ==
  IF \E i \in 1..Len(run) : run[i] = "."
  THEN {n \in Range(properties) :
          str_starts_with(n, RightPart(run)) /\ n[1] # "Symbol("}
  ELSE {n \in Range(properties) \cup Range(scope) : str_starts_with(n, run)}

\* C14: when no request fails, complete returns as candidates exactly the
\* property names of the left part that start with the right part, symbols
\* excluded, or, without a `.`, the global and lexical names that start
\* with the run; the start it returns is the cursor minus the length of
\* the right part (of the run), a position between 0 and the cursor
C14_CompleteCandidates ==
  (call.fn = "complete" /\ call.done
     /\ call.properties.kind # "Err" /\ call.scope.kind # "Err") =>
    LET run == get_expr_from_line_at_pos(call.line, call.pos) IN
    /\ call.result.kind = "Ok"
    /\ Range(call.result.candidates) =
         Offered(run, call.properties.names, call.scope.names)
    /\ call.result.start = call.pos - Len(RightPart(run))
    /\ ~call.result.overflow
    /\ call.result.start \in 0..call.pos

\* the order of sort
Sorted(ns) == \A i \in 1..(Len(ns) - 1) : str_less(ns[i], ns[i + 1])

\* C15: the candidates complete returns are sorted and without
\* duplicates, for a property and for a global name
C15_CandidatesSorted ==
  (call.fn = "complete" /\ call.done /\ call.result.kind = "Ok") =>
    Sorted(call.result.candidates)

\* C16: no failure of a probe of complete propagates: when the response the
\* helper receives is an Err or reports an exception, and the start of the
\* completion does not overflow, the line-reading unit goes on with the
\* next request or with reading the line and does not panic
C16_ProbeFailuresSwallowed ==
  [][(/\ lt = "waiting" /\ lt' # "waiting" /\ response_ch # <<>>
      /\ ~helper.panics
      /\ (Head(response_ch).err \/ Head(response_ch).exception))
       => lt' \in {"sending", "reading"}]_vars

\* the output of a line whose final response is resp
Displayed(resp) ==
  IF resp.exception THEN <<"Uncaught ", "%o", resp.value>>
  ELSE <<"%o", resp.value>>

\* what C17 says of every line but the loop going on
ErrorsClassified ==
  /\ [](LineEvaluated =>
          IF ev.diag
          THEN /\ output = ParseErrorOutput
               /\ ev.booked = "none"
               /\ lastEvalResult = ev.before.lastEvalResult
               /\ lastThrownError = ev.before.lastThrownError
          ELSE /\ output = Displayed(evaluate_response)
               /\ (output[1] = "Uncaught ") = evaluate_response.exception
               /\ evaluate_response.exception =>
                    lastThrownError = evaluate_response.value)
  /\ [][(pc \in EvalPcs /\ reply # <<>> /\ Head(reply).err /\ pc' # pc) =>
          pc' = "failed"]_vars
  /\ [][(pc \in {"wrapped", "retry"} /\ pc' # pc) =>
          \/ pc' = "failed" /\ pending' = pending
          \/ pc' = "is_closing" /\ ev'.diag
          \/ pc' \in {"evaluate1", "evaluate2"} /\ ~ev'.diag
      ]_vars
  /\ [][pc = "failed" =>
          pc' = "failed" /\ UNCHANGED <<stdout, history, saved>>]_vars

\* C17 as stated: a parse diagnostic is rendered as the parse error,
\* updates no tracking binding, and the loop goes on; a runtime exception
\* is displayed with the prefix `Uncaught `, which is there exactly when
\* the final response carries an exception, and the loop goes on; a
\* transport failure or another transpile failure ends run()
C17_ErrorsClassified ==
  /\ ErrorsClassified
  /\ [][(pc = "is_closing" /\ (ev.diag \/ evaluate_response.exception)
            /\ pc' \notin {"is_closing", "failed"}) =>
          pc' = "loop" /\ stdout' = output]_vars

\* C17, amended: the same, the loop going on after a parse diagnostic or a
\* runtime exception unless the closed flag is found set after the line,
\* in which case the loop ends and the output is not printed
C17_ErrorsClassifiedUnlessClosing ==
  /\ ErrorsClassified
  /\ [][(pc = "is_closing" /\ (ev.diag \/ evaluate_response.exception)
            /\ pc' \notin {"is_closing", "failed"}) =>
          IF closed THEN pc' = "save" /\ stdout' = stdout
          ELSE pc' = "loop" /\ stdout' = output]_vars

\* a line threw v2: it was displayed as Uncaught v2 and the loop went on
C17_Witness ==
  /\ pc = "loop" /\ prev = [kind |-> "exception", value |-> "v2"]
  /\ stdout = <<"Uncaught ", "%o", "v2">>
  /\ lastThrownError = "v2" /\ ~closed

PreludeRequests ==
  Cardinality({i \in 1..Len(pending) : pending[i].what = "PRELUDE"})
    + Cardinality({i \in 1..Len(reply) : reply[i].what = "PRELUDE"})

\* what C18 says of the prelude being evaluated once and of the context id
PreludeOnceContextFixed ==
  /\ [](PreludeRequests = IF pc = "prelude" THEN 1 ELSE 0)
  /\ [][pc' = "prelude" => pc \in {"enable", "prelude"}]_vars
  /\ [][pc = "prelude" => pc' \in {"prelude", "loop", "failed"}]_vars
  /\ [](pc \in {"start", "enable", "prelude"} =>
          lt = "none" /\ submitted = <<>> /\ UserEvaluationsInFlight = 0
            /\ stdout = <<>>)
  /\ [](pc = "prelude" => context_id \in ContextIds)
  /\ [][pc \notin {"start", "enable"} => context_id' = context_id]_vars
  /\ [](\A i \in 1..Len(pending) :
          pending[i].ctx # {} => pending[i].ctx = {context_id})
  /\ [](\A i \in 1..Len(message_ch) :
          message_ch[i].ctx # {} => message_ch[i].ctx = {context_id})
  /\ [](pc \in BridgePcs => helper_context_id = context_id)

\* C18: the prelude is evaluated exactly once, after the context id is
\* learned and before a line is read or user text evaluated; when its
\* evaluation reports an exception or the request errors, initialization
\* fails and no prompt is shown; the context id never changes afterwards
\* and every request that names a context carries it
C18_PreludeOnceOrFail ==
  /\ PreludeOnceContextFixed
  /\ [][(pc = "prelude" /\ reply # <<>> /\ pc' # pc
            /\ (Head(reply).err \/ Head(reply).exception)) =>
          pc' = "failed" /\ stdout' = stdout]_vars

\* the text without the escape codes
Uncolored(out) ==
  SelectSeq(out, LAMBDA c :
    c \notin {"green", "red", "yellow", "cyan", "gray", "reset"})

\* C20: in one call of read_line_and_poll poll_worker starts set; a
\* scheduler step completes in the select only when the flag is set, and
\* clears it; the flag is set again only by the timeout; every iteration
\* starts with the drain, which leaves no request of EditorHelper pending
\* when the select is entered; the bridge returns only from the select,
\* when the line-reading unit has finished, with the result of the unit,
\* and it does return once the unit has finished
C20_PollWorker ==
  /\ [][(pc = "loop" /\ pc' # pc) => pc' = "drain" /\ poll_worker']_vars
  /\ [][(pc = "select" /\ pc' = "drain" /\ ~poll_worker') => poll_worker]_vars
  /\ [][(pc \in BridgePcs /\ ~poll_worker /\ poll_worker') =>
          pc = "select" /\ pc' = "drain"]_vars
  /\ [][(pc \in BridgePcs /\ poll_worker /\ ~poll_worker') =>
          pc = "select" /\ pc' \in {"drain", "match", "panicked"}]_vars
  /\ [][(pc = "select" /\ pc' # pc /\ pc' \in BridgePcs) => pc' = "drain"]_vars
  /\ [][(pc = "drain" /\ pc' = "select") =>
          message_ch = <<>> /\ InFlight = 0]_vars
  /\ [][(pc \in BridgePcs /\ pc' \notin BridgePcs) =>
          /\ pc = "select" /\ lt \in {"done", "panicked"} /\ lt' = "none"
          /\ pc' = IF lt = "done" THEN "match" ELSE "panicked"
          /\ line_result' = line_result]_vars
  /\ [](pc = "match" => line_result.kind # "none")
  /\ (pc \in BridgePcs /\ lt \in {"done", "panicked"})
       ~> (pc \notin BridgePcs)

\* the scheduler step completed and cleared the flag, a request of the
\* helper was answered, and the unit has finished: the bridge is about to
\* return
C20_Witness ==
  /\ pc = "select" /\ ~poll_worker /\ lt = "done" /\ respSent > 0
  /\ line_result.kind = "Ok"

\* C21: the run get_expr_from_line_at_pos returns for a line and a cursor
\* has no word boundary in it, is a part of the line that starts at or
\* before the cursor, and ends at or after the cursor and before the first
\* word boundary that follows the cursor
C21_ExprTouchesCursor ==
  (call.fn = "complete" /\ call.done) =>
    LET l == call.line
        pos == call.pos
        expr == get_expr_from_line_at_pos(l, pos) IN
    /\ \A i \in 1..Len(expr) : ~is_word_boundary(expr[i])
    /\ \E from \in 0..pos, to \in pos..Len(l) :
         /\ expr = SubSeq(l, from + 1, to)
         /\ \A k \in (pos + 1)..to : ~is_word_boundary(l[k])

\* the line with every item wrapped where it stands
RECURSIVE InPlace(_, _)
InPlace(l, use_color) ==
  IF l = <<>> THEN <<>>
  ELSE (IF Head(l) = " " THEN <<" ">>
        ELSE Colored(Head(l), <<Head(l)>>, use_color))
       \o InPlace(Tail(l), use_color)
\* the sequence without the elements outside the set
Only(out, keep) == SelectSeq(out, LAMBDA c : c \in keep)

\* C22: highlight returns the line with the span of every item replaced
\* in place by its wrapped (or unchanged) copy: the text between the items
\* is unchanged, the items come in the order of the line, each colored
\* item stands between the code of its color and a reset, and the output
\* without the codes is the line
C22_HighlightInPlace ==
  (call.fn = "highlight" /\ call.n >= 1) =>
    /\ call.first = InPlace(call.line, call.use_color)
    /\ Only(call.first, ItemKinds) = Only(call.line, ItemKinds)
    /\ Uncolored(call.first) = call.line
    /\ Len(call.first) >= Len(call.line)

\* two colored items: the span of the second is moved by the codes added
\* to the first
C22_Witness ==
  /\ call.fn = "highlight" /\ call.n >= 1 /\ call.use_color
  /\ call.line = <<"Num", " ", "Comment">>
  /\ call.first = <<"yellow", "Num", "reset", " ", "gray", "Comment", "reset">>

\* C23: a call of op_message_port_post_message that returns an error
\* delivers no message and leaves the resource table as it was: no port
\* leaves the table, none is cancelled, none is dropped
C23_FailedPostChangesNothing ==
  [][(posts' # posts /\ ret'.kind = "Err") =>
       /\ resource_table' = resource_table
       /\ recv_op' = recv_op
       /\ rx' = rx
       /\ live' = live]_vars

IsPrefix(x, y) == Len(x) <= Len(y) /\ x = SubSeq(y, 1, Len(x))
\* the ports whose entry a step removes from the table
Gone == {resource_table[r].port : r \in DOMAIN resource_table \ DOMAIN resource_table'}
\* the ports a message carries
Carried(m) == {m.transferables[i] : i \in DOMAIN m.transferables}
\* the places a port is in: entries of the table and messages in transit
Places(p) ==
  Cardinality({r \in DOMAIN resource_table :
                 resource_table[r] = MessagePortResource(p)})
  + Cardinality({<<q, k>> \in PortIds \X (1..MaxPosts) :
                   k <= Len(rx[q]) /\ p \in Carried(rx[q][k])})

\* C24: the data a port has received is a prefix of the data posted on
\* its peer, so every message is received by the peer only, once, in the
\* order posted; a post that succeeds removes the ports it transfers from
\* the table and, when the peer is not dropped, appends one message with
\* them to the receiver of the peer; with the peer dropped it delivers
\* nothing; a recv that returns a message enters the ports the message
\* carries in the table under ids never given before, in order; no error
\* of a post is about the peer; a port is never in two places
C24_EntangledDelivery ==
  /\ [](\A p \in PortIds : IsPrefix(received[Peer(p)], posted[p]))
  /\ [](\A p \in PortIds : Places(p) <= 1)
  /\ [][\A p \in PortIds : posted'[p] # posted[p] =>
          /\ ret' = Ret("post", "Ok", "", posts', <<>>)
          /\ posted'[p] = Append(posted[p], posts')
          /\ \A q \in Gone : Places(q)' = (IF Peer(p) \in live THEN 1 ELSE 0)
          /\ DOMAIN resource_table' \subseteq DOMAIN resource_table
          /\ received' = received
          /\ IF Peer(p) \in live
             THEN /\ Len(rx'[Peer(p)]) = Len(rx[Peer(p)]) + 1
                  /\ IsPrefix(rx[Peer(p)], rx'[Peer(p)])
                  /\ rx'[Peer(p)][Len(rx'[Peer(p)])].data = posts'
                  /\ Carried(rx'[Peer(p)][Len(rx'[Peer(p)])]) = Gone
                  /\ \A q \in PortIds \ {Peer(p)} : rx'[q] = rx[q]
                  /\ live' = live
             ELSE /\ \A q \in PortIds : rx'[q] \in {rx[q], <<>>}
                  /\ rx'[Peer(p)] = <<>>]_vars
  /\ [][(posts' # posts /\ ret'.kind = "Err") =>
          ret'.error \in {"Can not transfer self message port",
                          "Bad resource ID", "Invalid message port transfer",
                          "Message port is not ready for transfer"}]_vars
  /\ [][\A p \in PortIds : received'[p] # received[p] =>
          /\ rx[p] # <<>>
          /\ received'[p] = Append(received[p], Head(rx[p]).data)
          /\ ret'.op = "recv" /\ ret'.kind = "Some"
          /\ ret'.data = Head(rx[p]).data
          /\ Len(ret'.rids) = Len(Head(rx[p]).transferables)
          /\ \A i \in DOMAIN ret'.rids :
               /\ ret'.rids[i] = next_rid + i - 1
               /\ ret'.rids[i] \notin DOMAIN resource_table
               /\ resource_table'[ret'.rids[i]] =
                    MessagePortResource(Head(rx[p]).transferables[i])
          /\ next_rid' = next_rid + Len(ret'.rids)
          /\ \A r \in DOMAIN resource_table :
               r \in DOMAIN resource_table'
                 /\ resource_table'[r] = resource_table[r]]_vars
  /\ [][next_rid' >= next_rid]_vars

\* two messages posted on port 1 were received by port 2 in the order
\* posted, and the port the second one carried entered the table under a
\* new id
C24_Witness ==
  /\ posted[1] = <<1, 2>> /\ received[2] = <<1, 2>>
  /\ ret.op = "recv" /\ ret.kind = "Some" /\ ret.data = 2
  /\ ret.rids = <<5>>
  /\ 5 \in DOMAIN resource_table /\ 3 \notin DOMAIN resource_table
  /\ resource_table[5] = MessagePortResource(3)
====
